---- MODULE Spec2Model ----
(***************************************************************************)
(* A model of the retina regex-filter data plane: the layer-2/3/4 parser   *)
(* (protocols/), the shared flow table (filter/mod.rs), the rule daemon    *)
(* (rules/mod.rs), the packet store (packet_store/mod.rs) and the receive  *)
(* cores (lcore/rx_core.rs).                                               *)
(*                                                                         *)
(* The module holds several specifications over one set of variables:      *)
(*   SpecFlows    the flow table under concurrent cores, at the            *)
(*                granularity of DashMap's shard locks;                    *)
(*   SpecRules    the rule daemon and the cores' check_match;              *)
(*   SpecStore    the packet store fed by arbitrary senders;               *)
(*   SpecParse    L4Context::new applied to frames;                        *)
(*   SpecFlowKey  get_flow applied to contexts;                            *)
(*   Spec         the pipeline: cores, rule daemon, pruner and store;      *)
(*   SpecClone    FilterCtx::new and the clones the cores are given;       *)
(*   SpecFaults   the pipeline with I/O errors in the packet store;        *)
(*   SpecClose    the channel from its senders to the end of the store;    *)
(*   SpecLoop     the polling loops of the cores and the running flag;     *)
(*   SpecHandOff  the cores' send_packet and the store behind the channel; *)
(*   SpecOwn      the frame handles from the burst to their release;       *)
(*   SpecMonitor  Monitor::run, its clock and the running flag;            *)
(*   SpecServe    the daemon's listener and the clients that connect.      *)
(* SpecRulesLive, SpecLoopLive, SpecHandOffLive and SpecMonitorLive add    *)
(* the weak fairness of the steps of the daemon, the cores, the store and  *)
(* the monitor to the specification they are named after.                  *)
(* Spec and SpecStore describe the runs in which no open or write fails.   *)
(* Each specification keeps the variables of the other parts constant.     *)
(***************************************************************************)
EXTENDS Integers, Sequences, FiniteSets, TLC

(***************************************************************************)
(* Bounds of the model.                                                    *)
(***************************************************************************)
\* Worker cores, each owning one clone of the FilterCtx.
NumCores == 2
\* The monotonic clock runs from 0 to MaxTime.
MaxTime == 3
\* FilterCtx.timeout, in clock ticks.
Timeout == 2
\* The capacity of the store's LruCache (1_000 in the code).
CacheCapacity == 1
\* Pairs sent to the store in its own specification.
MaxSent == 3
\* Frames the network delivers to the cores of the pipeline.
MaxFrames == 2
\* Hosts whose addresses the contexts given to get_flow are made of.
NumHosts == 2
\* Pairs each holder of a Sender hands off before it drops the Sender.
MaxSends == 2
\* Frames one rx_burst returns at most (32 in the code).
MaxBurst == 2
\* Buffers the NIC hands out to the cores in the specification of the frame
\* handles.
MaxMbufs == 3
\* The longest duration the monitor is configured with, and the longest time
\* its clock is followed for.
MaxDuration == 2

\* Clients that connect to the socket of the rule daemon.
NumClients == 3
\* Documents the clients write to their connections, all together.
MaxDocs == 3

Cores == 1..NumCores
\* The thread that calls prune_flows periodically (no receive core does).
Pruner == 0
NoTime == -1
NoOwner == -1

VARIABLES
    \* ---- flow table (FilterCtx.flows, shared by every clone) ----
    flows,      \* the DashMap: a function from the present keys to timestamps
    now,        \* the monotonic clock Instant::now() reads
    shardLock,  \* per DashMap shard: NoOwner when free, else the thread holding its write lock
    fop,        \* per thread (cores and pruner): the flow-table call in progress
    \* ---- history of the flow table ----
    lastAdd,    \* per key: the timestamp stored by the latest completed add_flow, or NoTime
    dirty,      \* per key: a refresh has written the key since that add_flow
    expired,    \* per key: prune_flows has scanned the key's shard more than Timeout
                \* after lastAdd, with no refresh in between
    lastCheck,  \* the check_if_existing_flow call that returned in the last step, if any
    lastPrune   \* the shard retain visited in the last step, and the clock value it compared with

flowVars == <<flows, now, shardLock, fop, lastAdd, dirty, expired, lastCheck, lastPrune>>

VARIABLES
    \* ---- rule cells (FilterCtx.regexes) and the rule daemon (Rules) ----
    regexes,    \* per cell: the RegexSet it holds (a set of patterns)
    cellLock,   \* per cell: TRUE while the daemon holds the cell's write lock
    daemon,     \* the daemon thread: where it is in accept / read / update_rules
    \* ---- history of the rule cells ----
    installed,  \* the rule set of the latest update_rules call (the initial set before any)
    prevInstalled, \* the rule set installed before that one
    writes,     \* per cell: writes made by the latest update_rules call
    rejected,   \* the latest document read failed to compile; the cells before it was read
    seen        \* the check_match call that returned in the last step, if any

ruleVars == <<regexes, cellLock, daemon, installed, prevInstalled, writes, rejected, seen>>

VARIABLES
    \* ---- hand-off channel and packet store (PacketStore) ----
    channel,    \* the pairs (flow, packet) sent and not yet received, oldest first
    files,      \* the output directory: a function from file names to contents
    cache,      \* the LruCache: its keys, most recently used first
    fds,        \* the flows whose File the store holds open
    store,      \* the saving loop: where it is, and the pair it is working on
    \* ---- history of the store ----
    received,   \* per flow: the packets the store has received, in order
    sent        \* pairs sent so far

storeVars == <<channel, files, cache, fds, store, received, sent>>

VARIABLES
    pk,         \* the frame L4Context::new is applied to, and the result
    fk          \* the L4Context get_flow is applied to, and the result

parseVars == <<pk, fk>>

VARIABLES
    \* ---- receive cores (RxCore::rx_process and the callback) ----
    rx,         \* per core: where it is in the processing of its current frame
    delivered,  \* frames the network has delivered so far
    \* ---- history of the cores ----
    admitted,   \* the flows for which some payload matched the rules of its core
    accepted    \* per frame: how many times it was accepted, by a hit or a match

rxVars == <<rx, delivered, admitted, accepted>>

VARIABLES
    ctxs        \* the FilterCtx values: of the original (0) and of each core's RxCore

cloneVars == <<ctxs>>

VARIABLES
    \* ---- the polling loop of every core (RxCore::rx_loop) ----
    is_running, \* the AtomicBool shared by the monitor and the cores
    lcore       \* per core: its queues, where it is in its loop, and its counters

loopVars == <<is_running, lcore>>

VARIABLES
    \* ---- the frame handles (Mbuf) from the burst receive to their release ----
    pool        \* who holds every Mbuf handed out, and how often each was freed

ownVars == <<pool>>

VARIABLES
    \* ---- the monitor thread (Monitor::run) ----
    monitor     \* its configured duration, where it is in run, and the time since its start

monVars == <<monitor>>

VARIABLES
    \* ---- the listener of the rule daemon and its clients ----
    listener    \* the connections: pending, being handled, ended; what was read from them

connVars == <<listener>>

vars == <<flowVars, ruleVars, storeVars, parseVars, rxVars, cloneVars, loopVars, ownVars, monVars, connVars>>

\* What the actions of one part leave alone.
notFlowVars == <<ruleVars, storeVars, parseVars, rxVars, cloneVars, loopVars, ownVars, monVars, connVars>>
notRuleVars == <<flowVars, storeVars, parseVars, rxVars, cloneVars, loopVars, ownVars, monVars, connVars>>
notStoreVars == <<flowVars, ruleVars, parseVars, rxVars, cloneVars, loopVars, ownVars, monVars, connVars>>
notParseVars == <<flowVars, ruleVars, storeVars, rxVars, cloneVars, loopVars, ownVars, monVars, connVars>>
notRxVars == <<flowVars, ruleVars, storeVars, parseVars, cloneVars, loopVars, ownVars, monVars, connVars>>

(***************************************************************************)
(* Frames and headers: protocols/packet/ethernet.rs, protocols/layer4.rs.  *)
(*                                                                         *)
(* A frame is the sequence of the bytes of the Mbuf.  Offsets count from 0  *)
(* as in the code; sequences count from 1.                                  *)
(***************************************************************************)
\* A big-endian 16-bit field at offset off (u16be).
U16BE(b, off) == b[off + 1] * 256 + b[off + 2]
BE16(n) == <<n \div 256, n % 256>>
Zeros(n) == [i \in 1..n |-> 0]

\* Mbuf::data_len and Mbuf::get_data::<T>(offset): the read succeeds when the
\* size bytes at offset lie within the frame.
data_len(frame) == Len(frame)
get_data(frame, offset, size) == offset + size <= data_len(frame)

\* ethernet.rs: header and tag sizes, the 802.1Q EtherType (0x8100).
HDR_SIZE == 14
TAG_SIZE == 4
VLAN_802_1Q == 33024
\* EtherTypes of IPv4 (0x0800) and IPv6 (0x86DD); IP protocol numbers.
IPV4_ETHER_TYPE == 2048
IPV6_ETHER_TYPE == 34525
TCP_PROTOCOL == 6
UDP_PROTOCOL == 17

ParseError(what) == [ok |-> FALSE, err |-> what]

\* Ethernet::parse_from, the loop over the VLAN headers: read a tag at offset,
\* push it, go on to the next tag while the tag's EtherType is 802.1Q.
RECURSIVE VlanLoop(_, _, _)
VlanLoop(frame, offset, vlans) ==
    IF ~get_data(frame, offset, TAG_SIZE)
    THEN ParseError("InvalidRead")
    ELSE LET next == [tci |-> U16BE(frame, offset), ether_type |-> U16BE(frame, offset + 2)]
         IN  IF next.ether_type = VLAN_802_1Q
             THEN VlanLoop(frame, offset + TAG_SIZE, Append(vlans, next))
             ELSE [ok |-> TRUE, vlans |-> Append(vlans, next)]

\* Ethernet::parse_from.
Ethernet_parse_from(frame) ==
    IF get_data(frame, 0, HDR_SIZE)
    THEN LET ether_type == U16BE(frame, 12)
             tags == IF ether_type = VLAN_802_1Q
                     THEN VlanLoop(frame, HDR_SIZE, <<>>)
                     ELSE [ok |-> TRUE, vlans |-> <<>>]
         IN  IF tags.ok
             THEN [ok |-> TRUE, ether_type |-> ether_type,
                   vlan_headers |-> tags.vlans, offset |-> 0]
             ELSE tags
    ELSE ParseError("InvalidRead")

\* Ethernet::header_len, next_header_offset, next_header.
Ethernet_header_len(eth) == HDR_SIZE + Len(eth.vlan_headers) * TAG_SIZE
Ethernet_next_header_offset(eth) == eth.offset + Ethernet_header_len(eth)
\* next_header that answers the fixed header's EtherType whatever the tags.
Ethernet_next_header_outer(eth) == eth.ether_type
Ethernet_next_header(eth) ==
    IF eth.vlan_headers = <<>>
    THEN eth.ether_type
    ELSE eth.vlan_headers[Len(eth.vlan_headers)].ether_type

\* Ethernet::get_last_vlan_id: the 12-bit id of the innermost tag, if any.
NoVlan == -1
get_last_vlan_id(eth) ==
    IF eth.vlan_headers = <<>>
    THEN NoVlan
    ELSE eth.vlan_headers[Len(eth.vlan_headers)].tci % 4096

\* Ipv4::parse_from: the outer header announces IPv4 and the 20 bytes of the
\* fixed header can be read.  header_len is the IHL in bytes.
Ipv4_parse_from(frame, eth) ==
    LET off == Ethernet_next_header_offset(eth) IN
    IF Ethernet_next_header(eth) = IPV4_ETHER_TYPE /\ get_data(frame, off, 20)
    THEN [ok |-> TRUE,
          header_len |-> (frame[off + 1] % 16) * 4,
          total_length |-> U16BE(frame, off + 2),
          next_header |-> frame[off + 10],
          src_addr |-> SubSeq(frame, off + 13, off + 16),
          dst_addr |-> SubSeq(frame, off + 17, off + 20),
          next_header_offset |-> off + (frame[off + 1] % 16) * 4]
    ELSE ParseError("Not an IPv4 packet")

\* Ipv6::parse_from: the outer header announces IPv6 and the 40 bytes of the
\* fixed header can be read.
Ipv6_parse_from(frame, eth) ==
    LET off == Ethernet_next_header_offset(eth) IN
    IF Ethernet_next_header(eth) = IPV6_ETHER_TYPE /\ get_data(frame, off, 40)
    THEN [ok |-> TRUE,
          header_len |-> 40,
          payload_length |-> U16BE(frame, off + 4),
          next_header |-> frame[off + 7],
          src_addr |-> SubSeq(frame, off + 9, off + 24),
          dst_addr |-> SubSeq(frame, off + 25, off + 40),
          next_header_offset |-> off + 40]
    ELSE ParseError("Not an IPv6 packet")

\* Tcp::parse_from: the IP header announces TCP and the 20 bytes of the fixed
\* header can be read.  header_len is the data offset in bytes.
Tcp_parse_from(frame, ip) ==
    LET off == ip.next_header_offset IN
    IF ip.next_header = TCP_PROTOCOL /\ get_data(frame, off, 20)
    THEN [ok |-> TRUE,
          src_port |-> U16BE(frame, off),
          dst_port |-> U16BE(frame, off + 2),
          header_len |-> (frame[off + 13] \div 16) * 4,
          next_header_offset |-> off + (frame[off + 13] \div 16) * 4]
    ELSE ParseError("Not a TCP packet")

\* Udp::parse_from: the IP header announces UDP and the 8 bytes of the header
\* can be read.
Udp_parse_from(frame, ip) ==
    LET off == ip.next_header_offset IN
    IF ip.next_header = UDP_PROTOCOL /\ get_data(frame, off, 8)
    THEN [ok |-> TRUE,
          src_port |-> U16BE(frame, off),
          dst_port |-> U16BE(frame, off + 2),
          header_len |-> 8,
          next_header_offset |-> off + 8]
    ELSE ParseError("Not a UDP packet")

\* SocketAddr::new(IpAddr::V4(..) or V6(..), port).
SocketAddr(fam, ip, port) == [fam |-> fam, ip |-> ip, port |-> port]

\* The L4Context a successful parse returns.
L4Ok(fam, ip, l4, proto, payload_size, eth) ==
    [ok |-> TRUE,
     src |-> SocketAddr(fam, ip.src_addr, l4.src_port),
     dst |-> SocketAddr(fam, ip.dst_addr, l4.dst_port),
     proto |-> proto,
     offset |-> l4.next_header_offset,
     length |-> payload_size,
     vlan_id |-> get_last_vlan_id(eth)]

\* The branch with a wrapping subtraction in place of checked_sub (the value
\* kept to 16 bits).
L4BranchWrapping(fam, ip, l4, proto, declared, headers, eth) ==
    L4Ok(fam, ip, l4, proto, (declared - headers) % 65536, eth)

\* One branch of L4Context::new: the payload size is the length the IP header
\* declares minus the header lengths (checked_sub), and nothing else.
L4Branch(fam, ip, l4, proto, declared, headers, eth) ==
    IF declared >= headers
    THEN L4Ok(fam, ip, l4, proto, declared - headers, eth)
    ELSE ParseError("Malformed Packet")

\* L4Context::new.
L4Context_new(frame) ==
    LET eth == Ethernet_parse_from(frame) IN
    IF eth.ok
    THEN LET ipv4 == Ipv4_parse_from(frame, eth) IN
         IF ipv4.ok
         THEN LET tcp == Tcp_parse_from(frame, ipv4)
                  udp == Udp_parse_from(frame, ipv4)
              IN  IF tcp.ok
                  THEN L4Branch(4, ipv4, tcp, TCP_PROTOCOL, ipv4.total_length,
                                ipv4.header_len + tcp.header_len, eth)
                  ELSE IF udp.ok
                  THEN L4Branch(4, ipv4, udp, UDP_PROTOCOL, ipv4.total_length,
                                ipv4.header_len + udp.header_len, eth)
                  ELSE ParseError("Not TCP or UDP")
         ELSE LET ipv6 == Ipv6_parse_from(frame, eth) IN
              IF ipv6.ok
              THEN LET tcp == Tcp_parse_from(frame, ipv6)
                       udp == Udp_parse_from(frame, ipv6)
                   IN  IF tcp.ok
                       THEN L4Branch(6, ipv6, tcp, TCP_PROTOCOL, ipv6.payload_length,
                                     tcp.header_len, eth)
                       ELSE IF udp.ok
                       THEN L4Branch(6, ipv6, udp, UDP_PROTOCOL, ipv6.payload_length,
                                     udp.header_len, eth)
                       ELSE ParseError("Not TCP or UDP")
              ELSE ParseError("Not IP")
    ELSE ParseError("Not Ethernet")

\* The order of SocketAddr: V4 before V6, then the address bytes from the
\* first, then the port.
LexLess(a, b) ==
    \E i \in 1..Len(a) : a[i] < b[i] /\ \A j \in 1..(i - 1) : a[j] = b[j]

SocketAddrLess(a, b) ==
    \/ a.fam < b.fam
    \/ a.fam = b.fam /\ LexLess(a.ip, b.ip)
    \/ a.fam = b.fam /\ a.ip = b.ip /\ a.port < b.port

\* std::cmp::max and min: max returns its second argument unless the first is
\* greater, min its first unless it is greater.
cmp_max_first(a, b) == a
cmp_max(a, b) == IF SocketAddrLess(b, a) THEN a ELSE b
cmp_min(a, b) == IF SocketAddrLess(b, a) THEN b ELSE a

\* L4Context::get_flow: Flow(vlan_id, max(src, dst), min(src, dst), proto).
get_flow(ctx) == <<ctx.vlan_id, cmp_max(ctx.src, ctx.dst), cmp_min(ctx.src, ctx.dst), ctx.proto>>

\* No flow: the value of a field that holds a Flow when there is none.
NoFlow == <<>>

\* The derived Hash of Flow feeds the four fields to the hasher in order; the
\* model keeps what is fed.  Equality compares the same four fields.
FlowHashInput(flow) ==
    <<flow[1], flow[2].fam>> \o flow[2].ip \o <<flow[2].port, flow[3].fam>>
    \o flow[3].ip \o <<flow[3].port, flow[4]>>

\* Flow::to_filename: the fields of the canonical tuple written out one after
\* the other, each number in decimal digits, separated by "_" (byte 95).
RECURSIVE Digits(_)
Digits(n) == IF n < 10 THEN <<48 + n>> ELSE Digits(n \div 10) \o <<48 + (n % 10)>>

RECURSIVE JoinBytes(_)
JoinBytes(ns) ==
    IF ns = <<>> THEN <<>>
    ELSE IF Len(ns) = 1 THEN Digits(ns[1])
    ELSE Digits(ns[1]) \o <<95>> \o JoinBytes(Tail(ns))

to_filename(flow) ==
    (IF flow[1] = NoVlan THEN <<110>> ELSE Digits(flow[1])) \o <<95>>
    \o JoinBytes(flow[2].ip \o <<flow[2].port>> \o flow[3].ip \o <<flow[3].port>>)
    \o <<95>> \o Digits(flow[4])

(***************************************************************************)
(* The frames the network delivers, written out byte by byte.              *)
(***************************************************************************)
EthernetHeader(ether_type) == Zeros(12) \o BE16(ether_type)

\* The fixed header followed by the 802.1Q tags of vids, then the EtherType.
RECURSIVE VlanTags(_, _)
VlanTags(vids, ether_type) ==
    IF vids = <<>> THEN <<>>
    ELSE BE16(vids[1])
         \o BE16(IF Len(vids) = 1 THEN ether_type ELSE VLAN_802_1Q)
         \o VlanTags(Tail(vids), ether_type)

Layer2(vids, ether_type) ==
    EthernetHeader(IF vids = <<>> THEN ether_type ELSE VLAN_802_1Q)
    \o VlanTags(vids, ether_type)

Ipv4Header(ihl, total_length, protocol, src, dst) ==
    <<64 + ihl, 0>> \o BE16(total_length) \o Zeros(5) \o <<protocol>> \o Zeros(2)
    \o src \o dst \o Zeros((ihl - 5) * 4)

Ipv6Header(payload_length, next_header, src, dst) ==
    <<96, 0, 0, 0>> \o BE16(payload_length) \o <<next_header, 64>> \o src \o dst

TcpHeader(src_port, dst_port) ==
    BE16(src_port) \o BE16(dst_port) \o Zeros(8) \o <<80>> \o Zeros(7)

UdpHeader(src_port, dst_port, length) ==
    BE16(src_port) \o BE16(dst_port) \o BE16(length) \o Zeros(2)

\* The layer-4 header of protocol proto; any other protocol (ICMP, 1) is
\* followed by eight bytes of its own.
Layer4Header(proto, src_port, dst_port, payload) ==
    IF proto = TCP_PROTOCOL THEN TcpHeader(src_port, dst_port)
    ELSE IF proto = UDP_PROTOCOL THEN UdpHeader(src_port, dst_port, 8 + Len(payload))
    ELSE Zeros(8)

\* Two hosts, with an IPv4 and an IPv6 address each, and their ports.
HostAddr(fam, h) == IF fam = 4 THEN <<10, 0, 0, h>> ELSE Zeros(15) \o <<h>>
HostPort(h) == 1000 + h

\* A frame from host s to host d.  declared is what the IP header announces
\* as the length of everything after the IP header.
Ipv4Frame(vids, ihl, proto, s, d, payload, declared) ==
    Layer2(vids, IPV4_ETHER_TYPE)
    \o Ipv4Header(ihl, ihl * 4 + declared, proto, HostAddr(4, s), HostAddr(4, d))
    \o Layer4Header(proto, HostPort(s), HostPort(d), payload)
    \o payload

Ipv6Frame(vids, proto, s, d, payload, declared) ==
    Layer2(vids, IPV6_ETHER_TYPE)
    \o Ipv6Header(declared, proto, HostAddr(6, s), HostAddr(6, d))
    \o Layer4Header(proto, HostPort(s), HostPort(d), payload)
    \o payload

\* A well-formed frame: the IP header announces what follows it.
WellFormed(fam, vids, proto, s, d, payload) ==
    LET declared == Len(Layer4Header(proto, 0, 0, payload)) + Len(payload) IN
    IF fam = 4 THEN Ipv4Frame(vids, 5, proto, s, d, payload, declared)
    ELSE Ipv6Frame(vids, proto, s, d, payload, declared)

\* The stacks of VLAN ids, the protocols and the payloads of the frames.
TagStacks == {<<>>, <<100>>, <<100, 200>>}
Protocols == {TCP_PROTOCOL, UDP_PROTOCOL, 1}
FramePayloads == {<<>>, <<98, 97>>}

\* What the IP header may announce: the true length, more than is present,
\* or less than the headers take.
Declared(proto, payload) ==
    LET exact == Len(Layer4Header(proto, 0, 0, payload)) + Len(payload)
    IN  {exact, exact + 6, 4}

\* The frames of the parser's specification: every frame of the shapes above
\* and an ARP frame (EtherType 0x0806), each cut off after any number of its
\* bytes.
WholeFrames ==
    UNION {{Ipv4Frame(vids, ihl, proto, 1, 2, payload, declared) :
                declared \in Declared(proto, payload)} :
            vids \in TagStacks, ihl \in {5, 6}, proto \in Protocols,
            payload \in FramePayloads}
    \cup
    UNION {{Ipv6Frame(vids, proto, 2, 1, payload, declared) :
                declared \in Declared(proto, payload)} :
            vids \in TagStacks, proto \in Protocols, payload \in FramePayloads}
    \cup {Layer2(<<>>, 2054) \o Zeros(28)}

Frames == UNION {{SubSeq(frame, 1, k) : k \in 0..Len(frame)} : frame \in WholeFrames}

\* The flow of a frame that parses.
FlowOfFrame(frame) == get_flow(L4Context_new(frame))

\* The frames the cores of the pipeline receive: the two directions of a TCP
\* connection between hosts 1 and 2, a UDP datagram between hosts 1 and 3, and
\* a frame cut off inside its IP header.
WireFrames ==
    {WellFormed(4, <<>>, TCP_PROTOCOL, 1, 2, <<97>>),
     WellFormed(4, <<>>, TCP_PROTOCOL, 2, 1, <<98>>),
     WellFormed(4, <<>>, UDP_PROTOCOL, 1, 3, <<98, 97>>),
     SubSeq(WellFormed(4, <<>>, TCP_PROTOCOL, 1, 2, <<97>>), 1, 30)}

\* The keys of the flow table: the flows of those frames.
FlowKeys == {FlowOfFrame(frame) : frame \in {w \in WireFrames : L4Context_new(w).ok}}

(***************************************************************************)
(* The flow table: filter/mod.rs.  DashMap partitions its keys over shards *)
(* and guards each shard with a read-write lock; get_mut, insert and       *)
(* retain take the write lock of the shard they touch.                     *)
(***************************************************************************)
\* The keys hash into two shards.
Shards == {0, 1}
\* DashMap picks the shard from the key's hash; the model's hash adds up what
\* the key feeds to the hasher.
RECURSIVE SumSeq(_)
SumSeq(s) == IF s = <<>> THEN 0 ELSE s[1] + SumSeq(Tail(s))
ShardOf(f) == SumSeq(FlowHashInput(f)) % 2

IdleOp == [pc |-> "idle", flow |-> NoFlow, ts |-> 0, cursor |-> 0]
NoCheck == [flow |-> NoFlow, ret |-> FALSE, fresh |-> FALSE, exp |-> FALSE]
NoPrune == [shard |-> -1, at |-> NoTime]

\* At clock value t, less than Timeout has passed since the latest add_flow(f).
WithinTimeout(f, t) == lastAdd[f] # NoTime /\ t - lastAdd[f] < Timeout

\* The shard's RwLock is free: a writer may take it.
ShardFreeUnguarded(s) == TRUE
ShardFree(s) == shardLock[s] = NoOwner

\* DashMap::insert(key, value): the key is present afterwards, with that value.
InsertKeepOld(tbl, f, t) == IF f \in DOMAIN tbl THEN tbl ELSE [k \in (DOMAIN tbl) \cup {f} |-> IF k = f THEN t ELSE tbl[k]]
InsertIfPresent(tbl, f, t) == IF f \in DOMAIN tbl THEN [tbl EXCEPT ![f] = t] ELSE tbl
Insert(tbl, f, t) == [k \in (DOMAIN tbl) \cup {f} |-> IF k = f THEN t ELSE tbl[k]]

\* A refresh that compares the entry's age with the timeout first and leaves
\* an entry that is too old as it is.
WriteThroughFresh(tbl, f, t) ==
    IF f \in DOMAIN tbl /\ (t - tbl[f]) < Timeout THEN [tbl EXCEPT ![f] = t] ELSE tbl
\* *timestamp = value through the RefMut that get_mut returned.
WriteThroughNone(tbl, f, t) == tbl
WriteThroughAll(tbl, f, t) == [k \in DOMAIN tbl |-> t]
WriteThrough(tbl, f, t) == IF f \in DOMAIN tbl THEN [tbl EXCEPT ![f] = t] ELSE tbl

\* The closure of prune_flows: timestamp.elapsed() < self.timeout.
KeepEntryInverted(ts, t) == ~((t - ts) < Timeout)
KeepEntry(ts, t) == (t - ts) < Timeout

\* retain on one shard at clock value t.
RetainShard(tbl, s, t) ==
    LET keep == {k \in DOMAIN tbl : ShardOf(k) # s \/ KeepEntry(tbl[k], t)}
    IN  [k \in keep |-> tbl[k]]

\* check_if_existing_flow, first half: get_mut takes the shard's write lock and
\* looks the key up.  On Some the guard (the RefMut) stays held; on None it is
\* dropped at once and the call returns false.
check_if_existing_flow_lookup(c, f) ==
    /\ fop[c].pc = "idle"
    /\ ShardFree(ShardOf(f))
    /\ IF f \in DOMAIN flows
       THEN /\ shardLock' = [shardLock EXCEPT ![ShardOf(f)] = c]
            /\ fop' = [fop EXCEPT ![c] = [IdleOp EXCEPT !.pc = "hit", !.flow = f]]
            /\ lastCheck' = NoCheck
       ELSE /\ lastCheck' = [flow |-> f, ret |-> FALSE,
                             fresh |-> WithinTimeout(f, now), exp |-> expired[f]]
            /\ UNCHANGED <<shardLock, fop>>
    /\ lastPrune' = NoPrune
    /\ UNCHANGED <<flows, now, lastAdd, dirty, expired>>
    /\ UNCHANGED notFlowVars

\* check_if_existing_flow, second half: *timestamp = Instant::now(), then the
\* guard is dropped and the call returns true.
check_if_existing_flow_refresh(c) ==
    /\ fop[c].pc = "hit"
    /\ flows' = WriteThrough(flows, fop[c].flow, now)
    /\ shardLock' = [s \in Shards |-> IF shardLock[s] = c THEN NoOwner ELSE shardLock[s]]
    /\ dirty' = [dirty EXCEPT ![fop[c].flow] = TRUE]
    /\ lastCheck' = [flow |-> fop[c].flow, ret |-> TRUE,
                     fresh |-> WithinTimeout(fop[c].flow, now), exp |-> expired[fop[c].flow]]
    /\ fop' = [fop EXCEPT ![c] = IdleOp]
    /\ lastPrune' = NoPrune
    /\ UNCHANGED <<now, lastAdd, expired>>
    /\ UNCHANGED notFlowVars

\* add_flow, first half: the arguments of insert are evaluated, Instant::now()
\* among them, before insert takes the shard lock.
add_flow_now(c, f) ==
    /\ fop[c].pc = "idle"
    /\ fop' = [fop EXCEPT ![c] = [IdleOp EXCEPT !.pc = "add", !.flow = f, !.ts = now]]
    /\ lastCheck' = NoCheck
    /\ lastPrune' = NoPrune
    /\ UNCHANGED <<flows, now, shardLock, lastAdd, dirty, expired>>
    /\ UNCHANGED notFlowVars

\* add_flow, second half: insert under the shard's write lock.
add_flow_insert(c) ==
    /\ fop[c].pc = "add"
    /\ ShardFree(ShardOf(fop[c].flow))
    /\ flows' = Insert(flows, fop[c].flow, fop[c].ts)
    /\ lastAdd' = [lastAdd EXCEPT ![fop[c].flow] = fop[c].ts]
    /\ dirty' = [dirty EXCEPT ![fop[c].flow] = FALSE]
    /\ expired' = [expired EXCEPT ![fop[c].flow] = FALSE]
    /\ fop' = [fop EXCEPT ![c] = IdleOp]
    /\ lastCheck' = NoCheck
    /\ lastPrune' = NoPrune
    /\ UNCHANGED <<now, shardLock>>
    /\ UNCHANGED notFlowVars

\* prune_flows is called: retain will visit the shards in order.
prune_flows_begin(c) ==
    /\ fop[c].pc = "idle"
    /\ fop' = [fop EXCEPT ![c] = [IdleOp EXCEPT !.pc = "prune", !.cursor = 0]]
    /\ lastCheck' = NoCheck
    /\ lastPrune' = NoPrune
    /\ UNCHANGED <<flows, now, shardLock, lastAdd, dirty, expired>>
    /\ UNCHANGED notFlowVars

\* prune_flows, one shard: retain takes the shard's write lock, drops every
\* entry whose closure is false, and releases the lock.
prune_flows_shard(c) ==
    /\ fop[c].pc = "prune"
    /\ ShardFree(fop[c].cursor)
    /\ flows' = RetainShard(flows, fop[c].cursor, now)
    /\ expired' = [f \in FlowKeys |->
                     IF /\ ShardOf(f) = fop[c].cursor
                        /\ lastAdd[f] # NoTime
                        /\ ~dirty[f]
                        /\ now - lastAdd[f] > Timeout
                     THEN TRUE ELSE expired[f]]
    /\ fop' = [fop EXCEPT ![c] =
                 IF fop[c].cursor + 1 \in Shards
                 THEN [fop[c] EXCEPT !.cursor = fop[c].cursor + 1]
                 ELSE IdleOp]
    /\ lastCheck' = NoCheck
    /\ lastPrune' = [shard |-> fop[c].cursor, at |-> now]
    /\ UNCHANGED <<now, shardLock, lastAdd, dirty>>
    /\ UNCHANGED notFlowVars

\* Time passes.
Tick ==
    /\ now < MaxTime
    /\ now' = now + 1
    /\ lastCheck' = NoCheck
    /\ lastPrune' = NoPrune
    /\ UNCHANGED <<flows, shardLock, fop, lastAdd, dirty, expired>>
    /\ UNCHANGED notFlowVars

NextFlows ==
    \/ \E c \in Cores, f \in FlowKeys : check_if_existing_flow_lookup(c, f)
    \/ \E c \in Cores : check_if_existing_flow_refresh(c)
    \/ \E c \in Cores, f \in FlowKeys : add_flow_now(c, f)
    \/ \E c \in Cores : add_flow_insert(c)
    \/ prune_flows_begin(Pruner)
    \/ prune_flows_shard(Pruner)
    \/ Tick

(***************************************************************************)
(* Rules and matching: rules/mod.rs and FilterCtx.check_match.             *)
(*                                                                         *)
(* A pattern is a sequence of bytes, as a payload is (regex::bytes).  The   *)
(* regular expressions of the model are literals, matched anywhere in the  *)
(* payload as is_match does; a pattern with an unclosed "(" (byte 40) does *)
(* not compile.  97 and 98 are the bytes of "a" and "b".                   *)
(***************************************************************************)
Patterns == {<<97>>, <<98>>, <<40>>}
Payloads == {<<>>, <<97>>, <<98>>, <<98, 97>>}

\* Regex::new succeeds on the pattern.
Compiles(p) == \A i \in 1..Len(p) : p[i] # 40

\* The pattern occurs in the payload.
Contains(payload, p) ==
    \E i \in 0..(Len(payload) - Len(p)) :
        \A j \in 1..Len(p) : payload[i + j] = p[j]

\* A set that matches when none of its patterns fails to: the empty set
\* matches every payload.
is_match_vacuous(set, payload) == \A p \in set : Contains(payload, p)
\* RegexSet::is_match: some pattern of the set matches.
is_match_nonempty(set, payload) == set # {}
is_match(set, payload) == \E p \in set : Contains(payload, p)

\* RegexSet::empty().
EmptyRegexSet == {}

\* RegexSet::new(rules): Err as soon as one pattern does not compile.
RegexSetNewLenient(rules) == [ok |-> TRUE, set |-> {p \in rules : Compiles(p)}]
RegexSetNew(rules) ==
    IF \A p \in rules : Compiles(p)
    THEN [ok |-> TRUE, set |-> rules]
    ELSE [ok |-> FALSE, set |-> EmptyRegexSet]

\* The cells: FilterCtx::new makes one for the original context (cell 0) and
\* Clone makes a fresh one, Arc::new(RwLock::new(..)), for every core's clone.
OriginalCell == 0
CellOf(c) == c
Cells == {OriginalCell} \cup {CellOf(c) : c \in Cores}

\* Runtime::get_regexes_from_cores: the cell of every rx core, in core order.
\* A collection that leaves out the cell of the first core.
get_regexes_skipping_first == [i \in 1..(NumCores - 1) |-> CellOf(i + 1)]
get_regexes_missing_core == [i \in 1..(NumCores - 1) |-> CellOf(i)]
get_regexes_from_cores == [i \in 1..NumCores |-> CellOf(i)]

\* The documents a client can send: a JSON object with a "rules" array, or
\* bytes that do not deserialize into RuleFormat.
Documents == [json : {TRUE}, rules : SUBSET Patterns] \cup [json : {FALSE}, rules : {{}}]
\* The documents the operator of the pipeline sends, one after the other:
\* {"rules": ["a"]}, and {"rules": ["b"]} once the first is in force.
WireDocuments == <<[json |-> TRUE, rules |-> {<<97>>}], [json |-> TRUE, rules |-> {<<98>>}]>>
\* The document the operator sends next, if any is left.
NextDocuments ==
    {WireDocuments[i] : i \in {j \in 1..Len(WireDocuments) :
        installed = (IF j = 1 THEN EmptyRegexSet ELSE WireDocuments[j - 1].rules)}}

\* after tells whether a document of the connection being read failed to
\* compile, and what was installed when the latest such document was read.
NoReject == [active |-> FALSE, was |-> EmptyRegexSet]
DaemonIdle == [pc |-> "accept", new |-> EmptyRegexSet, idx |-> 0, after |-> NoReject]
NoSeen == [core |-> 0, rules |-> EmptyRegexSet, ret |-> FALSE]
NotRejected == [active |-> FALSE, rules |-> {}, before |-> <<>>]

\* What a reader of the cell finds: the RegexSet, unless the daemon is in the
\* middle of overwriting it.
Torn == {<<-1>>}
CellView(cell) == IF cellLock[cell] THEN Torn ELSE regexes[cell]

\* RwLock::read() returns: no writer holds the cell.
CellReadable(cell) == ~cellLock[cell]

\* *unlocked_regex = new_regexset.clone(): the cell holds the new set alone.
CellStoreUnion(old, new) == old \cup new
CellStore(old, new) == new

\* The write guard unlocked_regex goes out of scope at the end of the loop
\* body of update_rules: the cell is unlocked before the next one is locked.
DropGuardAtReturn(locks, cell) ==
    IF cell = get_regexes_from_cores[Len(get_regexes_from_cores)]
    THEN [c \in DOMAIN locks |-> FALSE] ELSE locks
DropGuard(locks, cell) == [locks EXCEPT ![cell] = FALSE]

\* check_match on core c: regexes.read().unwrap().is_match(payload).
check_match(c, payload) ==
    /\ CellReadable(CellOf(c))
    /\ seen' = [core |-> c, rules |-> CellView(CellOf(c)),
                ret |-> is_match(CellView(CellOf(c)), payload)]
    /\ UNCHANGED <<regexes, cellLock, daemon, installed, prevInstalled, writes, rejected>>
    /\ UNCHANGED notRuleVars

\* rule_update_loop: the listener yields the next connection.
rule_update_loop_accept ==
    /\ daemon.pc = "accept"
    /\ daemon' = [daemon EXCEPT !.pc = "read"]
    /\ seen' = NoSeen
    /\ UNCHANGED <<regexes, cellLock, installed, prevInstalled, writes, rejected>>
    /\ UNCHANGED notRuleVars

\* The Err arm of the match on RegexSet::new ends the connection.
OnCompileErrorClose(pc) == "accept"
\* The Err arm of the match on RegexSet::new logs; the for loop over the
\* stream goes on.
OnCompileError(pc) == pc

\* The stream that has yielded an Err yields it again, for ever.
AfterStreamErrorAgain == "failed"
\* The stream that has yielded an Err yields None at the next call: the for
\* loop ends, handle_connection returns and the connection is dropped.
AfterStreamError == "accept"

\* handle_connection, one item of the deserializer's stream: a document that
\* compiles starts update_rules; one that does not is logged; bytes that do
\* not deserialize into a RuleFormat object are logged as well, and the
\* stream has failed.
handle_connection_document(doc) ==
    /\ daemon.pc = "read"
    /\ seen' = NoSeen
    /\ LET r == RegexSetNew(doc.rules) IN
       IF doc.json /\ r.ok
       THEN /\ daemon' = [daemon EXCEPT !.pc = "lock", !.new = r.set, !.idx = 1]
            /\ prevInstalled' = installed
            /\ installed' = r.set
            /\ writes' = [cell \in Cells |-> 0]
       ELSE /\ daemon' = IF doc.json
                         THEN [daemon EXCEPT !.pc = OnCompileError(daemon.pc),
                                             !.after = [active |-> TRUE, was |-> installed]]
                         ELSE [daemon EXCEPT !.pc = "failed"]
            /\ UNCHANGED <<installed, prevInstalled, writes>>
    /\ rejected' = IF doc.json /\ \E p \in doc.rules : ~Compiles(p)
                   THEN [active |-> TRUE, rules |-> doc.rules, before |-> regexes]
                   ELSE NotRejected
    /\ UNCHANGED <<regexes, cellLock>>
    /\ UNCHANGED notRuleVars

\* handle_connection: the client has closed the connection, the stream ends
\* and the connection is dropped.
handle_connection_eof ==
    /\ daemon.pc = "read"
    /\ daemon' = [daemon EXCEPT !.pc = "accept", !.after = NoReject]
    /\ seen' = NoSeen
    /\ UNCHANGED <<regexes, cellLock, installed, prevInstalled, writes, rejected>>
    /\ UNCHANGED notRuleVars

\* handle_connection after bytes that did not deserialize: the next call of
\* the stream's iterator.
handle_connection_failed ==
    /\ daemon.pc = "failed"
    /\ daemon' = [daemon EXCEPT !.pc = AfterStreamError, !.after = NoReject]
    /\ seen' = NoSeen
    /\ UNCHANGED <<regexes, cellLock, installed, prevInstalled, writes, rejected>>
    /\ UNCHANGED notRuleVars

\* update_rules, loop body, first half: existing_regexset.write().
update_rules_lock ==
    /\ daemon.pc = "lock"
    /\ cellLock' = [cellLock EXCEPT ![get_regexes_from_cores[daemon.idx]] = TRUE]
    /\ daemon' = [daemon EXCEPT !.pc = "store"]
    /\ seen' = NoSeen
    /\ UNCHANGED <<regexes, installed, prevInstalled, writes, rejected>>
    /\ UNCHANGED notRuleVars

\* update_rules, loop body, second half: *unlocked_regex = new_regexset.clone(),
\* then the guard is dropped; after the last cell update_rules returns.
update_rules_store ==
    /\ daemon.pc = "store"
    /\ LET cell == get_regexes_from_cores[daemon.idx] IN
        /\ regexes' = [regexes EXCEPT ![cell] = CellStore(regexes[cell], daemon.new)]
        /\ cellLock' = DropGuard(cellLock, cell)
        /\ writes' = [writes EXCEPT ![cell] = @ + 1]
    /\ daemon' = IF daemon.idx < Len(get_regexes_from_cores)
                 THEN [daemon EXCEPT !.pc = "lock", !.idx = @ + 1]
                 ELSE [daemon EXCEPT !.pc = "read", !.idx = 0]
    /\ seen' = NoSeen
    /\ UNCHANGED <<installed, prevInstalled, rejected>>
    /\ UNCHANGED notRuleVars

NextRules ==
    \/ \E c \in Cores, payload \in Payloads : check_match(c, payload)
    \/ rule_update_loop_accept
    \/ \E doc \in Documents : handle_connection_document(doc)
    \/ handle_connection_eof
    \/ handle_connection_failed
    \/ update_rules_lock
    \/ update_rules_store

(***************************************************************************)
(* The packet store: packet_store/mod.rs.  One thread receives the pairs   *)
(* of the channel and appends a record per pair to the file of the flow,   *)
(* keeping the open files in an LRU cache.                                 *)
(***************************************************************************)
\* The flows of the store's specification: one more than the cache holds.
StoreFlow(i) == FlowOfFrame(WellFormed(4, <<>>, UDP_PROTOCOL, 1, 1 + i, <<>>))
StoreFlows == {StoreFlow(i) : i \in 1..(CacheCapacity + 1)}
\* The packets of the store's specification: an empty one and one of two bytes.
StorePackets == {<<>>, <<1, 0>>}

AllFlows == FlowKeys \cup StoreFlows

StoreIdle == [pc |-> "recv", flow |-> NoFlow, packet |-> <<>>]

\* u64::to_le_bytes: eight bytes, least significant first.
RECURSIVE LeBytes(_, _)
LeBytes(n, k) == IF k = 0 THEN <<>> ELSE <<n % 256>> \o LeBytes(n \div 256, k - 1)
to_be_bytes(n) == [i \in 1..8 |-> LeBytes(n, 8)[9 - i]]
to_le_bytes(n) == LeBytes(n, 8)

\* OpenOptions::new().create(true).append(true).open(path): the file exists
\* afterwards, with the content it had.
OpenTruncate(fs, name) == [n \in (DOMAIN fs) \cup {name} |-> IF n = name THEN <<>> ELSE fs[n]]
OpenAppend(fs, name) == [n \in (DOMAIN fs) \cup {name} |-> IF n \in DOMAIN fs THEN fs[n] ELSE <<>>]

\* File::write on a descriptor opened without the append flag: right after
\* the open the bytes go over the start of the file.
FileWriteFromStart(fs, name, bytes) ==
    [fs EXCEPT ![name] = bytes \o SubSeq(@, Len(bytes) + 1, Len(@))]
\* File::write on a descriptor opened for appending.
FileWrite(fs, name, bytes) == [fs EXCEPT ![name] = @ \o bytes]

\* LruCache: the keys from the most to the least recently used.
Without(seq, x) == SelectSeq(seq, LAMBDA y : y # x)
Promote(lru, flow) == IF \E i \in 1..Len(lru) : lru[i] = flow THEN <<flow>> \o Without(lru, flow) ELSE lru
InCache(lru, flow) == \E i \in 1..Len(lru) : lru[i] = flow

\* Sender::send((flow, packet)): the pair joins the queue of the channel.
SendFront(ch, flow, packet) == <<[flow |-> flow, packet |-> packet]>> \o ch
Send(ch, flow, packet) == Append(ch, [flow |-> flow, packet |-> packet])

\* FilterCtx::send_packet, called by some core with some pair.
send_packet(flow, packet) ==
    /\ sent < MaxSent
    /\ channel' = Send(channel, flow, packet)
    /\ sent' = sent + 1
    /\ UNCHANGED <<files, cache, fds, store, received>>
    /\ UNCHANGED notStoreVars

\* start_saving_loop: receiver.iter() yields the next pair.
store_recv ==
    /\ store.pc = "recv"
    /\ channel # <<>>
    /\ store' = [pc |-> "lookup", flow |-> Head(channel).flow, packet |-> Head(channel).packet]
    /\ channel' = Tail(channel)
    /\ received' = [received EXCEPT ![Head(channel).flow] = Append(@, Head(channel).packet)]
    /\ UNCHANGED <<files, cache, fds, sent>>
    /\ UNCHANGED notStoreVars

\* cache.get_or_insert_mut(flow, || open(..)), first half.  A hit moves the
\* flow to the front.  On a miss the closure runs first: it opens the file.
store_get_or_insert ==
    /\ store.pc = "lookup"
    /\ IF InCache(cache, store.flow)
       THEN /\ cache' = Promote(cache, store.flow)
            /\ store' = [store EXCEPT !.pc = "write_len"]
            /\ UNCHANGED <<files, fds>>
       ELSE /\ files' = OpenAppend(files, to_filename(store.flow))
            /\ fds' = fds \cup {store.flow}
            /\ store' = [store EXCEPT !.pc = "insert"]
            /\ UNCHANGED cache
    /\ UNCHANGED <<channel, received, sent>>
    /\ UNCHANGED notStoreVars

\* get_or_insert_mut, second half of a miss: the new entry takes the place of
\* the least recently used one when the cache is full, and the File that was
\* replaced is dropped, which closes it.
store_insert ==
    /\ store.pc = "insert"
    /\ IF Len(cache) >= CacheCapacity
       THEN /\ cache' = <<store.flow>> \o SubSeq(cache, 1, Len(cache) - 1)
            /\ fds' = fds \ {cache[Len(cache)]}
       ELSE /\ cache' = <<store.flow>> \o cache
            /\ UNCHANGED fds
    /\ store' = [store EXCEPT !.pc = "write_len"]
    /\ UNCHANGED <<channel, files, received, sent>>
    /\ UNCHANGED notStoreVars

\* save_file.write(&(packet.data_len() as u64).to_le_bytes()).
store_write_len ==
    /\ store.pc = "write_len"
    /\ files' = FileWrite(files, to_filename(store.flow), to_le_bytes(data_len(store.packet)))
    /\ store' = [store EXCEPT !.pc = "write_data"]
    /\ UNCHANGED <<channel, cache, fds, received, sent>>
    /\ UNCHANGED notStoreVars

\* save_file.write(packet.data()), then cache.promote(&flow); the packet is
\* dropped and the loop takes the next pair.
store_write_data ==
    /\ store.pc = "write_data"
    /\ files' = FileWrite(files, to_filename(store.flow), store.packet)
    /\ cache' = Promote(cache, store.flow)
    /\ store' = StoreIdle
    /\ UNCHANGED <<channel, fds, received, sent>>
    /\ UNCHANGED notStoreVars

\* The Receiver of the channel was dropped: the thread of the store is gone.
ReceiverGone == store.pc = "panicked"

\* A panic in start_saving_loop: the thread unwinds, which drops the
\* PacketStore, its cache (closing the files) and the Receiver with the pairs
\* still queued.
StorePanics ==
    /\ store' = [store EXCEPT !.pc = "panicked"]
    /\ cache' = <<>>
    /\ fds' = {}
    /\ channel' = <<>>
    /\ UNCHANGED <<files, received, sent>>
    /\ UNCHANGED notStoreVars

\* OpenOptions::open returns Err (no space, no permission, too many open
\* files): unwrap() panics.
store_open_fails ==
    /\ store.pc = "lookup"
    /\ ~InCache(cache, store.flow)
    /\ StorePanics

\* save_file.write(..) of the length returns Err: unwrap() panics.
store_write_len_fails ==
    /\ store.pc = "write_len"
    /\ StorePanics

\* save_file.write(..) of the data returns Err: unwrap() panics.
store_write_data_fails ==
    /\ store.pc = "write_data"
    /\ StorePanics

NextStore ==
    \/ \E flow \in StoreFlows, packet \in StorePackets : send_packet(flow, packet)
    \/ store_recv
    \/ store_get_or_insert
    \/ store_write_len
    \/ store_insert
    \/ store_write_data

\* Reading a flow's file back: an 8-byte little-endian length, then that many
\* bytes, again and again.  Bytes that are no complete record yield Malformed.
Malformed == <<-1>>
from_le_bytes(b) ==
    IF \E i \in 4..8 : b[i] # 0 THEN 16777216 ELSE b[1] + 256 * b[2] + 65536 * b[3]

RECURSIVE Decode(_)
Decode(bytes) ==
    IF bytes = <<>> THEN <<>>
    ELSE IF Len(bytes) < 8 THEN <<Malformed>>
    ELSE LET n == from_le_bytes(SubSeq(bytes, 1, 8)) IN
         IF 8 + n > Len(bytes) THEN <<Malformed>>
         ELSE <<SubSeq(bytes, 9, 8 + n)>> \o Decode(SubSeq(bytes, 9 + n, Len(bytes)))

\* The content of a flow's file; no file reads as an empty one.
FileOf(flow) == IF to_filename(flow) \in DOMAIN files THEN files[to_filename(flow)] ELSE <<>>

(***************************************************************************)
(* The parser applied to one frame after the other.                        *)
(***************************************************************************)
NoResult == ParseError("none")
ParseIdle == [pc |-> "idle", frame |-> <<>>, res |-> NoResult]

\* A frame arrives in an Mbuf.
mbuf_arrives(frame) ==
    /\ pk.pc = "idle"
    /\ pk' = [pc |-> "new", frame |-> frame, res |-> NoResult]
    /\ UNCHANGED fk
    /\ UNCHANGED notParseVars

\* L4Context::new(&mbuf) returns.
L4Context_new_returns ==
    /\ pk.pc = "new"
    /\ pk' = [pk EXCEPT !.pc = "done", !.res = L4Context_new(pk.frame)]
    /\ UNCHANGED fk
    /\ UNCHANGED notParseVars

\* The Mbuf is dropped.
mbuf_dropped ==
    /\ pk.pc = "done"
    /\ pk' = ParseIdle
    /\ UNCHANGED fk
    /\ UNCHANGED notParseVars

NextParse ==
    \/ \E frame \in Frames : mbuf_arrives(frame)
    \/ L4Context_new_returns
    \/ mbuf_dropped

(***************************************************************************)
(* get_flow applied to one L4Context after the other.                      *)
(***************************************************************************)
\* The socket addresses: NumHosts hosts, an IPv4 and an IPv6 address each,
\* two ports.
SocketAddrs ==
    {SocketAddr(fam, HostAddr(fam, h), port) :
        fam \in {4, 6}, h \in 1..NumHosts, port \in {HostPort(1), HostPort(2)}}
PayloadOffsets == {42, 54}
PayloadLengths == {0, 14}
VlanIds == {NoVlan, 100, 200}

Contexts ==
    [src : SocketAddrs, dst : SocketAddrs, proto : {TCP_PROTOCOL, UDP_PROTOCOL},
     offset : PayloadOffsets, length : PayloadLengths, vlan_id : VlanIds]

NoContext == [src |-> SocketAddr(0, <<>>, 0), dst |-> SocketAddr(0, <<>>, 0), proto |-> 0,
              offset |-> 0, length |-> 0, vlan_id |-> NoVlan]
KeyIdle == [pc |-> "idle", ctx |-> NoContext, flow |-> NoFlow]

\* A frame was parsed into ctx.
context_parsed(ctx) ==
    /\ fk.pc = "idle"
    /\ fk' = [pc |-> "ctx", ctx |-> ctx, flow |-> NoFlow]
    /\ UNCHANGED pk
    /\ UNCHANGED notParseVars

\* ctx.get_flow() returns.
get_flow_returns ==
    /\ fk.pc = "ctx"
    /\ fk' = [fk EXCEPT !.pc = "flow", !.flow = get_flow(fk.ctx)]
    /\ UNCHANGED pk
    /\ UNCHANGED notParseVars

\* The context and the flow go out of scope.
context_dropped ==
    /\ fk.pc = "flow"
    /\ fk' = KeyIdle
    /\ UNCHANGED pk
    /\ UNCHANGED notParseVars

NextFlowKey ==
    \/ \E ctx \in Contexts : context_parsed(ctx)
    \/ get_flow_returns
    \/ context_dropped

(***************************************************************************)
(* The receive cores: lcore/rx_core.rs and the callback the subscription   *)
(* invokes for every frame (section 4.4 of the design).                    *)
(***************************************************************************)
\* A core between two frames; why and rules tell how its last frame ended:
\* "unparsed", "unmatched" against rules, or "sent".  On a core about to send
\* a frame that hit the table, rules is what its cell held at the hit.
RxIdle == [pc |-> "poll", mbuf |-> <<>>, ctx |-> NoContext, flow |-> NoFlow, ts |-> 0,
           why |-> "none", rules |-> EmptyRegexSet]

\* The payload slice of a parsed frame: length bytes from offset.
PayloadSlice(mbuf, ctx) == SubSeq(mbuf, ctx.offset + 1, ctx.offset + ctx.length)

\* The pairs of the channel, the cores and the store that carry packet.
CountIn(seq, x) == Cardinality({i \in 1..Len(seq) : seq[i] = x})
InFlight(packet) ==
    Cardinality({c \in Cores : rx[c].pc \in {"add", "insert", "send"} /\ rx[c].mbuf = packet})
    + Cardinality({i \in 1..Len(channel) : channel[i].packet = packet})

\* rx_process: rx_burst returns a frame of the queue.
rx_burst(c, frame) ==
    /\ rx[c].pc = "poll"
    /\ delivered < MaxFrames
    /\ delivered' = delivered + 1
    /\ rx' = [rx EXCEPT ![c] = [RxIdle EXCEPT !.pc = "process", !.mbuf = frame]]
    /\ UNCHANGED <<admitted, accepted>>
    /\ UNCHANGED notRxVars

\* S::process_packet: subscription.invoke(mbuf) calls the callback with the
\* frame, whatever the frame is.
process_packet(c) ==
    /\ rx[c].pc = "process"
    /\ rx' = [rx EXCEPT ![c].pc = "callback"]
    /\ UNCHANGED <<delivered, admitted, accepted>>
    /\ UNCHANGED notRxVars

\* L4Context::new on each frame of the wire, computed once.
Parsed == [w \in WireFrames |-> L4Context_new(w)]

\* The callback parses the frame and derives its flow; a frame that does not
\* parse is dropped.
callback_parse(c) ==
    /\ rx[c].pc = "callback"
    /\ LET res == Parsed[rx[c].mbuf] IN
       rx' = [rx EXCEPT ![c] =
                IF res.ok
                THEN [rx[c] EXCEPT !.pc = "check",
                                   !.ctx = [src |-> res.src, dst |-> res.dst, proto |-> res.proto,
                                            offset |-> res.offset, length |-> res.length,
                                            vlan_id |-> res.vlan_id],
                                   !.flow = get_flow(res)]
                ELSE [RxIdle EXCEPT !.why = "unparsed"]]
    /\ UNCHANGED <<delivered, admitted, accepted>>
    /\ UNCHANGED notRxVars

\* The callback calls check_if_existing_flow: a hit refreshes the timestamp
\* under the shard lock and the frame is accepted.
callback_check(c) ==
    /\ rx[c].pc = "check"
    /\ ShardFree(ShardOf(rx[c].flow))
    /\ IF rx[c].flow \in DOMAIN flows
       THEN /\ flows' = WriteThrough(flows, rx[c].flow, now)
            /\ rx' = [rx EXCEPT ![c].pc = "send", ![c].rules = regexes[CellOf(c)]]
            /\ accepted' = [accepted EXCEPT ![rx[c].mbuf] = @ + 1]
            /\ dirty' = [dirty EXCEPT ![rx[c].flow] = TRUE]
       ELSE /\ rx' = [rx EXCEPT ![c].pc = "match"]
            /\ UNCHANGED <<flows, accepted, dirty>>
    /\ lastPrune' = NoPrune
    /\ UNCHANGED <<delivered, admitted>>
    /\ UNCHANGED <<now, shardLock, fop, lastAdd, expired, lastCheck>>
    /\ UNCHANGED <<ruleVars, storeVars, parseVars, cloneVars, loopVars, ownVars, monVars, connVars>>

\* The callback calls check_match on the payload slice: on a match the frame
\* is accepted, otherwise it is dropped.
callback_match(c) ==
    /\ rx[c].pc = "match"
    /\ CellReadable(CellOf(c))
    /\ IF is_match(CellView(CellOf(c)), PayloadSlice(rx[c].mbuf, rx[c].ctx))
       THEN rx' = [rx EXCEPT ![c].pc = "add"]
       ELSE rx' = [rx EXCEPT ![c] = [RxIdle EXCEPT !.why = "unmatched",
                                                   !.rules = CellView(CellOf(c))]]
    /\ LET matched == \E p \in regexes[CellOf(c)] :
                          Contains(PayloadSlice(rx[c].mbuf, rx[c].ctx), p)
       IN  /\ admitted' = IF matched THEN admitted \cup {rx[c].flow} ELSE admitted
           /\ accepted' = IF matched THEN [accepted EXCEPT ![rx[c].mbuf] = @ + 1] ELSE accepted
    /\ UNCHANGED delivered
    /\ UNCHANGED notRxVars

\* The callback calls add_flow: Instant::now() is read ...
callback_add_flow(c) ==
    /\ rx[c].pc = "add"
    /\ rx' = [rx EXCEPT ![c].pc = "insert", ![c].ts = now]
    /\ UNCHANGED <<delivered, admitted, accepted>>
    /\ UNCHANGED notRxVars

\* ... and insert stores it under the shard lock.
callback_insert(c) ==
    /\ rx[c].pc = "insert"
    /\ ShardFree(ShardOf(rx[c].flow))
    /\ flows' = Insert(flows, rx[c].flow, rx[c].ts)
    /\ rx' = [rx EXCEPT ![c].pc = "send", ![c].ts = 0]
    /\ lastAdd' = [lastAdd EXCEPT ![rx[c].flow] = rx[c].ts]
    /\ dirty' = [dirty EXCEPT ![rx[c].flow] = FALSE]
    /\ expired' = [expired EXCEPT ![rx[c].flow] = FALSE]
    /\ lastPrune' = NoPrune
    /\ UNCHANGED <<delivered, admitted, accepted>>
    /\ UNCHANGED <<now, shardLock, fop, lastCheck>>
    /\ UNCHANGED <<ruleVars, storeVars, parseVars, cloneVars, loopVars, ownVars, monVars, connVars>>

\* The callback calls send_packet with the flow and the frame, and returns.
\* With the Receiver gone, Sender::send returns Err and unwrap() panics: the
\* thread of the core unwinds out of rx_process.
callback_send_packet(c) ==
    /\ rx[c].pc = "send"
    /\ IF ReceiverGone
       THEN /\ rx' = [rx EXCEPT ![c].pc = "panicked"]
            /\ UNCHANGED <<channel, sent>>
       ELSE /\ channel' = Send(channel, rx[c].flow, rx[c].mbuf)
            /\ sent' = sent + 1
            /\ rx' = [rx EXCEPT ![c] = [RxIdle EXCEPT !.why = "sent"]]
    /\ UNCHANGED <<delivered, admitted, accepted>>
    /\ UNCHANGED <<files, cache, fds, store, received>>
    /\ UNCHANGED <<flowVars, ruleVars, parseVars, cloneVars, loopVars, ownVars, monVars, connVars>>

Next ==
    \/ \E c \in Cores, frame \in WireFrames : rx_burst(c, frame)
    \/ \E c \in Cores : process_packet(c)
    \/ \E c \in Cores : callback_parse(c)
    \/ \E c \in Cores : callback_check(c)
    \/ \E c \in Cores : callback_match(c)
    \/ \E c \in Cores : callback_add_flow(c)
    \/ \E c \in Cores : callback_insert(c)
    \/ \E c \in Cores : callback_send_packet(c)
    \/ store_recv
    \/ store_get_or_insert
    \/ store_insert
    \/ store_write_len
    \/ store_write_data
    \/ rule_update_loop_accept
    \/ \E doc \in NextDocuments : handle_connection_document(doc)
    \/ handle_connection_eof
    \/ update_rules_lock
    \/ update_rules_store
    \/ prune_flows_begin(Pruner)
    \/ prune_flows_shard(Pruner)
    \/ Tick

\* The pipeline on a disk that can fail: the cores, the daemon and the store,
\* with I/O errors in the store; the clock stands still and nothing is pruned.
NextFaults ==
    \/ \E c \in Cores, frame \in WireFrames : rx_burst(c, frame)
    \/ \E c \in Cores : process_packet(c)
    \/ \E c \in Cores : callback_parse(c)
    \/ \E c \in Cores : callback_check(c)
    \/ \E c \in Cores : callback_match(c)
    \/ \E c \in Cores : callback_add_flow(c)
    \/ \E c \in Cores : callback_insert(c)
    \/ \E c \in Cores : callback_send_packet(c)
    \/ store_recv
    \/ store_get_or_insert
    \/ store_insert
    \/ store_write_len
    \/ store_write_data
    \/ store_open_fails
    \/ store_write_len_fails
    \/ store_write_data_fails
    \/ rule_update_loop_accept
    \/ \E doc \in NextDocuments : handle_connection_document(doc)
    \/ handle_connection_eof
    \/ update_rules_lock
    \/ update_rules_store

(***************************************************************************)
(* The FilterCtx values and their clones: FilterCtx::new, impl Clone for   *)
(* FilterCtx, RxCore::new.  A FilterCtx holds handles: the Arc of the flow *)
(* table, the Arc of its rule cell and the Sender of the channel; two      *)
(* handles are equal when they point to the same object.                   *)
(***************************************************************************)
\* The DashMap FilterCtx::new allocates and the channel whose Sender it is given.
TableHandle == "flows"
ChannelHandle == "channel"

\* The main thread holds the original FilterCtx; every core holds a clone.
Main == 0
Holders == {Main} \cup Cores

\* FilterCtx::new: a new table, a new cell, the given sender.
FilterCtx_new(cell) ==
    [flows |-> TableHandle, timeout |-> Timeout, regexes |-> cell, sender |-> ChannelHandle]

\* impl Clone for FilterCtx: the table's Arc and the Sender are cloned; the
\* cell is a new one, Arc::new(RwLock::new(..)), here fresh.
FilterCtx_clone_derived(self, fresh) == self
FilterCtx_clone(self, fresh) ==
    [flows |-> self.flows, timeout |-> self.timeout, regexes |-> fresh, sender |-> self.sender]

\* The table a context's handle points to.
TableOf(ctx) == IF ctx.flows = TableHandle THEN flows ELSE <<>>

\* The rule sets a cell is given in the specification of the clones.
CloneRuleSets == {{<<97>>}, {<<98>>}}

\* RxCore::new(core c, .., &filter_ctx, ..): the core keeps filter_ctx.clone();
\* the fresh cell starts with a copy of what the source's cell holds.
RxCore_new(c) ==
    /\ c \notin DOMAIN ctxs
    /\ ctxs' = [k \in (DOMAIN ctxs) \cup {c} |->
                  IF k = c THEN FilterCtx_clone(ctxs[Main], CellOf(c)) ELSE ctxs[k]]
    /\ regexes' = [regexes EXCEPT ![CellOf(c)] = regexes[ctxs[Main].regexes]]
    /\ seen' = NoSeen
    /\ UNCHANGED <<cellLock, daemon, installed, prevInstalled, writes, rejected>>
    /\ UNCHANGED <<flowVars, storeVars, parseVars, rxVars, loopVars, ownVars, monVars, connVars>>

\* *ctx.regexes.write().unwrap() = set, through the context k; each cell is
\* written once at most.
ctx_store_rules(k, set) ==
    /\ k \in DOMAIN ctxs
    /\ writes[ctxs[k].regexes] = 0
    /\ regexes' = [regexes EXCEPT ![ctxs[k].regexes] = CellStore(regexes[ctxs[k].regexes], set)]
    /\ writes' = [writes EXCEPT ![ctxs[k].regexes] = @ + 1]
    /\ seen' = NoSeen
    /\ UNCHANGED <<cellLock, daemon, installed, prevInstalled, rejected>>
    /\ UNCHANGED <<flowVars, storeVars, parseVars, rxVars, cloneVars, loopVars, ownVars, monVars, connVars>>

\* ctx.check_match(payload), through the context k.
ctx_check_match(k, payload) ==
    /\ k \in DOMAIN ctxs
    /\ seen' = [core |-> k, rules |-> regexes[ctxs[k].regexes],
                ret |-> is_match(regexes[ctxs[k].regexes], payload)]
    /\ UNCHANGED <<regexes, cellLock, daemon, installed, prevInstalled, writes, rejected>>
    /\ UNCHANGED <<flowVars, storeVars, parseVars, rxVars, cloneVars, loopVars, ownVars, monVars, connVars>>

\* ctx.add_flow(f), through the context k.
ctx_add_flow(k, f) ==
    /\ k \in DOMAIN ctxs
    /\ ctxs[k].flows = TableHandle
    /\ flows' = Insert(flows, f, now)
    /\ seen' = NoSeen
    /\ UNCHANGED <<now, shardLock, fop, lastAdd, dirty, expired, lastCheck, lastPrune>>
    /\ UNCHANGED <<regexes, cellLock, daemon, installed, prevInstalled, writes, rejected>>
    /\ UNCHANGED <<storeVars, parseVars, rxVars, cloneVars, loopVars, ownVars, monVars, connVars>>

NextClone ==
    \/ \E c \in Cores : RxCore_new(c)
    \/ \E k \in Holders, set \in CloneRuleSets : ctx_store_rules(k, set)
    \/ \E k \in Holders, payload \in Payloads : ctx_check_match(k, payload)
    \/ \E k \in Holders, f \in FlowKeys : ctx_add_flow(k, f)

(***************************************************************************)
(* The polling loops: RxCore::rx_loop, rx_process and rx_sink.  A core     *)
(* reads the running flag, polls each of its queues once, handles the      *)
(* frames of each burst one after the other, and reads the flag again.     *)
(***************************************************************************)
\* The queue vectors a core is given: the types of its queues, in order.
QueueVectors == {<<"Receive">>, <<"Sink">>, <<"Receive", "Sink">>, <<"Sink", "Receive">>}

\* The frames the queues of the loops deliver: one whose payload matches the
\* rule "a", and one cut off inside its IP header.
LoopFrames ==
    {WellFormed(4, <<>>, TCP_PROTOCOL, 1, 2, <<97>>),
     SubSeq(WellFormed(4, <<>>, TCP_PROTOCOL, 1, 2, <<97>>), 1, 30)}

\* What one rx_burst can return: up to MaxBurst frames.
Bursts == UNION {[1..n -> LoopFrames] : n \in 0..MaxBurst}

\* A core before rx_loop is called.  calls counts the process_packet calls
\* made, polled the queues whose frames were passed to process_packet.
LcoreStart(queues) ==
    [pc |-> "start", rxqueues |-> queues, mode |-> "none", q |-> 0, mbufs |-> <<>>,
     nb_pkts |-> 0, nb_bytes |-> 0, calls |-> 0, polled |-> {}]

\* rx_loop chooses with the type of the first queue, swapped.
ModeOfLastQueue(queues) == IF queues[Len(queues)] = "Receive" THEN "process" ELSE "sink"
\* rx_loop: rxqueues[0].ty == Receive selects rx_process, anything else rx_sink.
ModeOf(queues) == IF queues[1] = "Receive" THEN "process" ELSE "sink"

rx_loop(c) ==
    /\ lcore[c].pc = "start"
    /\ lcore' = [lcore EXCEPT ![c].pc = "load", ![c].mode = ModeOf(lcore[c].rxqueues)]
    /\ UNCHANGED is_running
    /\ UNCHANGED <<flowVars, ruleVars, storeVars, parseVars, rxVars, cloneVars, ownVars, monVars, connVars>>

\* The flag a core reads as false sends it on into another pass.
LoadIgnored(pc, flag) == "burst"
\* while self.is_running.load(Relaxed): a pass over the queues when the flag
\* is true, the end of the loop and of the function when it is false.
Load(pc, flag) == IF flag THEN "burst" ELSE "exited"

is_running_load(c) ==
    /\ lcore[c].pc = "load"
    /\ lcore' = [lcore EXCEPT ![c].pc = Load(lcore[c].pc, is_running), ![c].q = 1]
    /\ UNCHANGED is_running
    /\ UNCHANGED <<flowVars, ruleVars, storeVars, parseVars, rxVars, cloneVars, ownVars, monVars, connVars>>

\* self.rx_burst(rxqueue, 32) on the queue q returns the frames mbufs.
poll_queue(c, mbufs) ==
    /\ lcore[c].pc = "burst"
    /\ delivered + Len(mbufs) <= MaxFrames
    /\ delivered' = delivered + Len(mbufs)
    /\ lcore' = [lcore EXCEPT ![c].pc = "mbuf", ![c].mbufs = mbufs]
    /\ UNCHANGED <<rx, admitted, accepted, is_running>>
    /\ UNCHANGED <<flowVars, ruleVars, storeVars, parseVars, cloneVars, ownVars, monVars, connVars>>

\* for mbuf in mbufs: the frame is counted; rx_process passes it to
\* S::process_packet, rx_sink drops it.  After the last frame of the burst
\* the next queue is polled, after the last queue the flag is read.
next_mbuf(c) ==
    /\ lcore[c].pc = "mbuf"
    /\ IF lcore[c].mbufs = <<>>
       THEN /\ lcore' = [lcore EXCEPT
                            ![c].pc = IF lcore[c].q < Len(lcore[c].rxqueues) THEN "burst" ELSE "load",
                            ![c].q = IF lcore[c].q < Len(lcore[c].rxqueues) THEN @ + 1 ELSE @]
            /\ UNCHANGED rx
       ELSE IF lcore[c].mode = "process"
       THEN /\ lcore' = [lcore EXCEPT ![c].pc = "call",
                                      ![c].mbufs = Tail(@),
                                      ![c].nb_pkts = @ + 1,
                                      ![c].nb_bytes = @ + data_len(Head(lcore[c].mbufs)),
                                      ![c].calls = @ + 1,
                                      ![c].polled = @ \cup {lcore[c].q}]
            /\ rx' = [rx EXCEPT ![c] = [RxIdle EXCEPT !.pc = "process", !.mbuf = Head(lcore[c].mbufs)]]
       ELSE /\ lcore' = [lcore EXCEPT ![c].mbufs = Tail(@),
                                      ![c].nb_pkts = @ + 1,
                                      ![c].nb_bytes = @ + data_len(Head(lcore[c].mbufs))]
            /\ UNCHANGED rx
    /\ UNCHANGED <<delivered, admitted, accepted, is_running>>
    /\ UNCHANGED <<flowVars, ruleVars, storeVars, parseVars, cloneVars, ownVars, monVars, connVars>>

\* S::process_packet returns, however the frame ended; the for loop goes on.
process_packet_returns(c) ==
    /\ lcore[c].pc = "call"
    /\ rx[c].pc = "poll"
    /\ lcore' = [lcore EXCEPT ![c].pc = "mbuf"]
    /\ UNCHANGED is_running
    /\ UNCHANGED <<flowVars, ruleVars, storeVars, parseVars, rxVars, cloneVars, ownVars, monVars, connVars>>

\* Monitor::run: the duration has elapsed, is_running.store(false, Relaxed).
monitor_stop ==
    /\ is_running
    /\ is_running' = FALSE
    /\ UNCHANGED lcore
    /\ UNCHANGED <<flowVars, ruleVars, storeVars, parseVars, rxVars, cloneVars, ownVars, monVars, connVars>>

\* What the thread of core c does.
LcoreStep(c) ==
    \/ rx_loop(c)
    \/ is_running_load(c)
    \/ \E mbufs \in Bursts : poll_queue(c, mbufs)
    \/ next_mbuf(c)
    \/ process_packet_returns(c)
    \/ process_packet(c)
    \/ callback_parse(c)
    \/ callback_check(c)
    \/ callback_match(c)
    \/ callback_add_flow(c)
    \/ callback_insert(c)
    \/ callback_send_packet(c)

NextLoop ==
    \/ \E c \in Cores : rx_loop(c)
    \/ \E c \in Cores : is_running_load(c)
    \/ \E c \in Cores, mbufs \in Bursts : poll_queue(c, mbufs)
    \/ \E c \in Cores : next_mbuf(c)
    \/ \E c \in Cores : process_packet_returns(c)
    \/ \E c \in Cores : process_packet(c)
    \/ \E c \in Cores : callback_parse(c)
    \/ \E c \in Cores : callback_check(c)
    \/ \E c \in Cores : callback_match(c)
    \/ \E c \in Cores : callback_add_flow(c)
    \/ \E c \in Cores : callback_insert(c)
    \/ \E c \in Cores : callback_send_packet(c)
    \/ monitor_stop

(***************************************************************************)
(* The life of the channel: every FilterCtx holds a Sender, the store the  *)
(* Receiver.  receiver.iter() ends when the queue is empty and every       *)
(* Sender has been dropped.  The n-th packet a holder k hands off is the   *)
(* two bytes <<k, n>>, so that a packet tells who sent it and when.        *)
(***************************************************************************)
\* The numbers of the packets the holder k has handed off so far.
Handed(k) ==
    {n \in 1..MaxSends :
        \/ \E i \in 1..Len(channel) : channel[i].packet = <<k, n>>
        \/ \E f \in AllFlows : \E i \in 1..Len(received[f]) : received[f][i] = <<k, n>>}

\* No Sender of the channel is left.
ChannelClosed == \A k \in DOMAIN ctxs : ctxs[k].sender # ChannelHandle

\* ctx.send_packet(flow, packet), through the context k.  The cores hand off
\* packets; the main thread only holds the original context.
ctx_send_packet(k, flow) ==
    /\ k \in DOMAIN ctxs
    /\ ctxs[k].sender = ChannelHandle
    /\ Cardinality(Handed(k)) < MaxSends
    /\ channel' = Send(channel, flow, <<k, Cardinality(Handed(k)) + 1>>)
    /\ sent' = sent + 1
    /\ UNCHANGED <<files, cache, fds, store, received>>
    /\ UNCHANGED notStoreVars

\* The holder k drops its FilterCtx (the RxCore of a core that has left its
\* loop, the original at the end of main), and the Sender with it.
ctx_drop(k) ==
    /\ k \in DOMAIN ctxs
    /\ ctxs' = [j \in (DOMAIN ctxs) \ {k} |-> ctxs[j]]
    /\ UNCHANGED <<flowVars, ruleVars, storeVars, parseVars, rxVars, loopVars, ownVars, monVars, connVars>>

\* start_saving_loop: receiver.iter() yields None, the for loop ends and the
\* function returns.  It takes &mut self: the PacketStore, and the cache with
\* its Files, are as the loop left them.
store_returns ==
    /\ store.pc = "recv"
    /\ channel = <<>>
    /\ ChannelClosed
    /\ store' = [store EXCEPT !.pc = "returned"]
    /\ UNCHANGED <<channel, files, cache, fds, received, sent>>
    /\ UNCHANGED notStoreVars

NextClose ==
    \/ \E k \in Cores, flow \in StoreFlows : ctx_send_packet(k, flow)
    \/ \E k \in Holders : ctx_drop(k)
    \/ store_recv
    \/ store_get_or_insert
    \/ store_insert
    \/ store_write_len
    \/ store_write_data
    \/ store_returns

(***************************************************************************)
(* The hand-off seen from the senders: the cores send numbered packets     *)
(* while the store runs, with or without an I/O error.                     *)
(***************************************************************************)
\* SyncSender::send on a sync_channel(1): the caller waits while a pair is
\* queued.
SendReadyBounded(ch) == Len(ch) < 1
\* FilterCtx.sender is a std::sync::mpsc::Sender, the sending half of the
\* unbounded channel: send never waits, however many pairs are queued.
SendReady(ch) == TRUE

\* ctx.send_packet(flow, packet) on the core c, its n-th packet being the
\* bytes <<c, n>>.  With the Receiver gone send returns Err and unwrap panics.
core_send_packet(c, flow) ==
    /\ rx[c].pc = "poll"
    /\ Cardinality(Handed(c)) < MaxSends
    /\ SendReady(channel)
    /\ IF ReceiverGone
       THEN /\ rx' = [rx EXCEPT ![c].pc = "panicked"]
            /\ UNCHANGED <<channel, sent>>
       ELSE /\ channel' = Send(channel, flow, <<c, Cardinality(Handed(c)) + 1>>)
            /\ sent' = sent + 1
            /\ UNCHANGED rx
    /\ UNCHANGED <<delivered, admitted, accepted>>
    /\ UNCHANGED <<files, cache, fds, store, received>>
    /\ UNCHANGED <<flowVars, ruleVars, parseVars, cloneVars, loopVars, ownVars, monVars, connVars>>

\* A step of the thread of the store.
StoreStep ==
    \/ store_recv
    \/ store_get_or_insert
    \/ store_insert
    \/ store_write_len
    \/ store_write_data
    \/ store_open_fails
    \/ store_write_len_fails
    \/ store_write_data_fails

NextHandOff ==
    \/ \E c \in Cores, flow \in StoreFlows : core_send_packet(c, flow)
    \/ store_recv
    \/ store_get_or_insert
    \/ store_insert
    \/ store_write_len
    \/ store_write_data
    \/ store_open_fails
    \/ store_write_len_fails
    \/ store_write_data_fails

(***************************************************************************)
(* The frame handles.  rx_burst wraps every pointer the NIC returns in one *)
(* Mbuf; the Mbuf is moved from the burst to process_packet and on to the  *)
(* callback, which lets it drop or moves it into the channel; the store    *)
(* takes it out of the channel and lets it drop at the end of the loop     *)
(* body.  Dropping an Mbuf frees the buffer to its pool.  The runs are     *)
(* those in which no open or write of the store fails.                     *)
(***************************************************************************)
\* No Mbuf.
NoMbuf == 0

\* The state before rx_process: no buffer handed out, every core at the head
\* of its loop, the channel empty, the store receiving.
PoolStart ==
    [fresh |-> 0,
     frees |-> [id \in 1..MaxMbufs |-> 0],
     pc |-> [c \in Cores |-> "load"],
     mbufs |-> [c \in Cores |-> <<>>],
     obj |-> [c \in Cores |-> NoMbuf],
     queue |-> <<>>,
     spc |-> "recv",
     packet |-> NoMbuf]

\* Drop for Mbuf: the buffer goes back to its pool, once more.
Mbuf_drop(frees, id) == [frees EXCEPT ![id] = IF @ < 2 THEN @ + 1 ELSE @]

\* An iterator that yields the element and leaves it in the vector.
IntoIterKeep(v) == v
\* mbufs.into_iter(): next() moves the first element out of the vector.
IntoIterNext(v) == Tail(v)

\* while self.is_running.load(Relaxed), at the head of rx_process.
own_load(c) ==
    /\ pool.pc[c] = "load"
    /\ pool' = [pool EXCEPT !.pc[c] = Load("load", is_running)]
    /\ UNCHANGED <<flowVars, ruleVars, storeVars, parseVars, rxVars, cloneVars, loopVars, monVars, connVars>>

\* self.rx_burst(rxqueue, 32): the NIC returns n buffers, none of them handed
\* out before, and Mbuf::new_unchecked wraps each.
own_rx_burst(c, n) ==
    /\ pool.pc[c] = "burst"
    /\ pool.fresh + n <= MaxMbufs
    /\ pool' = [pool EXCEPT !.pc[c] = "mbuf",
                            !.mbufs[c] = [i \in 1..n |-> pool.fresh + i],
                            !.fresh = @ + n]
    /\ UNCHANGED <<flowVars, ruleVars, storeVars, parseVars, rxVars, cloneVars, loopVars, monVars, connVars>>

\* for mbuf in mbufs.into_iter(): S::process_packet(mbuf, ..) passes the Mbuf
\* to subscription.invoke, which passes it to the callback; after the last
\* Mbuf of the burst the flag is read again.
own_process_packet(c) ==
    /\ pool.pc[c] = "mbuf"
    /\ IF pool.mbufs[c] = <<>>
       THEN pool' = [pool EXCEPT !.pc[c] = "load"]
       ELSE pool' = [pool EXCEPT !.pc[c] = "callback",
                                 !.obj[c] = Head(pool.mbufs[c]),
                                 !.mbufs[c] = IntoIterNext(@)]
    /\ UNCHANGED <<flowVars, ruleVars, storeVars, parseVars, rxVars, cloneVars, loopVars, monVars, connVars>>

\* The callback returns without a hand-off (the frame did not parse, or was
\* rejected): its argument is dropped.
own_callback_returns(c) ==
    /\ pool.pc[c] = "callback"
    /\ pool' = [pool EXCEPT !.pc[c] = "mbuf",
                            !.obj[c] = NoMbuf,
                            !.frees = Mbuf_drop(@, pool.obj[c])]
    /\ UNCHANGED <<flowVars, ruleVars, storeVars, parseVars, rxVars, cloneVars, loopVars, monVars, connVars>>

\* The callback calls ctx.send_packet(&flow, packet): the Mbuf is moved into
\* the channel, and the callback returns.
own_send_packet(c) ==
    /\ pool.pc[c] = "callback"
    /\ pool' = [pool EXCEPT !.pc[c] = "mbuf",
                            !.obj[c] = NoMbuf,
                            !.queue = Append(@, pool.obj[c])]
    /\ UNCHANGED <<flowVars, ruleVars, storeVars, parseVars, rxVars, cloneVars, loopVars, monVars, connVars>>

\* start_saving_loop: receiver.iter() yields the next pair.
own_store_recv ==
    /\ pool.spc = "recv"
    /\ pool.queue # <<>>
    /\ pool' = [pool EXCEPT !.spc = "write", !.packet = Head(pool.queue), !.queue = Tail(@)]
    /\ UNCHANGED <<flowVars, ruleVars, storeVars, parseVars, rxVars, cloneVars, loopVars, monVars, connVars>>

\* The body of the loop has written the pair; packet goes out of scope.
own_store_written ==
    /\ pool.spc = "write"
    /\ pool' = [pool EXCEPT !.spc = "recv",
                            !.packet = NoMbuf,
                            !.frees = Mbuf_drop(@, pool.packet)]
    /\ UNCHANGED <<flowVars, ruleVars, storeVars, parseVars, rxVars, cloneVars, loopVars, monVars, connVars>>

NextOwn ==
    \/ \E c \in Cores : own_load(c)
    \/ \E c \in Cores, n \in 0..MaxBurst : own_rx_burst(c, n)
    \/ \E c \in Cores : own_process_packet(c)
    \/ \E c \in Cores : own_callback_returns(c)
    \/ \E c \in Cores : own_send_packet(c)
    \/ own_store_recv
    \/ own_store_written
    \/ monitor_stop
(***************************************************************************)
(* The monitor: lcore/monitor.rs.  Monitor::run polls the running flag and *)
(* clears it when the configured duration has elapsed; the cores only read *)
(* the flag.                                                               *)
(***************************************************************************)
\* duration: None.
NoDuration == -1

\* Before Monitor::new.
MonitorStart == [pc |-> "new", duration |-> NoDuration, elapsed |-> 0]

\* Monitor::new: duration = online_cfg.duration.map(Duration::from_secs).
Monitor_new(duration) ==
    /\ monitor.pc = "new"
    /\ monitor' = [monitor EXCEPT !.pc = "run", !.duration = duration]
    /\ UNCHANGED <<flowVars, ruleVars, storeVars, parseVars, rxVars, cloneVars, loopVars, ownVars, connVars>>

\* Monitor::run up to its loop: start_ts = Instant::now(), then a sleep.
monitor_run ==
    /\ monitor.pc = "run"
    /\ monitor' = [monitor EXCEPT !.pc = "load", !.elapsed = 0]
    /\ UNCHANGED <<flowVars, ruleVars, storeVars, parseVars, rxVars, cloneVars, loopVars, ownVars, connVars>>

\* Time passes: start_ts.elapsed() grows.
time_passes ==
    /\ monitor.pc \in {"load", "body"}
    /\ monitor.elapsed < MaxDuration
    /\ monitor' = [monitor EXCEPT !.elapsed = @ + 1]
    /\ UNCHANGED <<flowVars, ruleVars, storeVars, parseVars, rxVars, cloneVars, loopVars, ownVars, connVars>>

\* while self.is_running.load(Relaxed), at the head of the monitor's loop.
monitor_load ==
    /\ monitor.pc = "load"
    /\ monitor' = [monitor EXCEPT !.pc = IF is_running THEN "body" ELSE "exited"]
    /\ UNCHANGED <<flowVars, ruleVars, storeVars, parseVars, rxVars, cloneVars, loopVars, ownVars, connVars>>

\* The flag is cleared whatever the duration and the time elapsed.
ElapsedAlways(duration, elapsed) == TRUE
\* if let Some(duration) = self.duration { if start_ts.elapsed() >= duration
Elapsed(duration, elapsed) == duration # NoDuration /\ elapsed >= duration

\* The body of the loop: is_running.store(false, Relaxed) when the duration
\* has elapsed; the display and the logger do not touch the flag.
monitor_body ==
    /\ monitor.pc = "body"
    /\ is_running' = IF Elapsed(monitor.duration, monitor.elapsed) THEN FALSE ELSE is_running
    /\ monitor' = [monitor EXCEPT !.pc = "load"]
    /\ UNCHANGED lcore
    /\ UNCHANGED <<flowVars, ruleVars, storeVars, parseVars, rxVars, cloneVars, ownVars, connVars>>

\* What the thread of the monitor does.
MonitorStep ==
    \/ monitor_run
    \/ monitor_load
    \/ monitor_body

NextMonitor ==
    \/ \E duration \in {NoDuration} \cup 0..MaxDuration : Monitor_new(duration)
    \/ monitor_run
    \/ time_passes
    \/ monitor_load
    \/ monitor_body
    \/ \E c \in Cores : rx_loop(c)
    \/ \E c \in Cores : is_running_load(c)
    \/ \E c \in Cores : poll_queue(c, <<>>)
    \/ \E c \in Cores : next_mbuf(c)

(***************************************************************************)
(* The listener of the rule daemon and its clients: rule_update_loop and   *)
(* handle_connection (rules/mod.rs) at the granularity of connections.     *)
(***************************************************************************)
Clients == 1..NumClients

\* What a client writes: {"rules": [p]} for one pattern p, which may not
\* compile, or bytes that do not deserialize.
ClientDocuments == {d \in Documents : IF d.json THEN Cardinality(d.rules) = 1 ELSE TRUE}

\* Rules::new has bound the socket: no client has connected.  backlog is the
\* queue of the listener, handling the connections handle_connection is
\* running for, order the connections in the order they were accepted, ended
\* those handle_connection has returned for; conn and buf are the client's
\* end and the bytes in the socket the daemon has not read; failed are the
\* streams that have yielded an Err; written counts the documents written,
\* reads is every document the daemon has read, with its client.
ListenerStart ==
    [backlog |-> <<>>, handling |-> {}, order |-> <<>>, ended |-> {},
     conn |-> [k \in Clients |-> "none"], buf |-> [k \in Clients |-> <<>>],
     written |-> 0, failed |-> {}, reads |-> <<>>]

\* A client connects: its connection waits in the queue of the listener.
client_connect(k) ==
    /\ listener.conn[k] = "none"
    /\ listener' = [listener EXCEPT !.conn[k] = "open", !.backlog = Append(@, k)]
    /\ UNCHANGED <<flowVars, ruleVars, storeVars, parseVars, rxVars, cloneVars, loopVars, ownVars, monVars>>

\* A client writes a document to its connection, accepted or not yet.
client_write(k, doc) ==
    /\ listener.conn[k] = "open"
    /\ k \notin listener.ended
    /\ listener.written < MaxDocs
    /\ listener' = [listener EXCEPT !.buf[k] = Append(@, doc), !.written = @ + 1]
    /\ UNCHANGED <<flowVars, ruleVars, storeVars, parseVars, rxVars, cloneVars, loopVars, ownVars, monVars>>

\* A client closes its connection.
client_close(k) ==
    /\ listener.conn[k] = "open"
    /\ listener' = [listener EXCEPT !.conn[k] = "closed"]
    /\ UNCHANGED <<flowVars, ruleVars, storeVars, parseVars, rxVars, cloneVars, loopVars, ownVars, monVars>>

\* A daemon that hands every connection to a thread of its own accepts the
\* next one at once.
AcceptReadyThreaded(handling) == TRUE
\* rule_update_loop calls handle_connection in the body of its for loop over
\* incoming(): the next connection is accepted once the call has returned.
AcceptReady(handling) == handling = {}

\* rule_update_loop: incoming() yields the connection at the head of the
\* queue and handle_connection is called with it.
listener_accept ==
    /\ AcceptReady(listener.handling)
    /\ listener.backlog # <<>>
    /\ listener' = [listener EXCEPT !.backlog = Tail(@),
                                    !.handling = @ \cup {Head(listener.backlog)},
                                    !.order = Append(@, Head(listener.backlog))]
    /\ UNCHANGED <<flowVars, ruleVars, storeVars, parseVars, rxVars, cloneVars, loopVars, ownVars, monVars>>

\* update_rules, from its call to its return: every cell of
\* regexsets_from_cores is given the new set.
update_rules(cells, set) ==
    [cell \in Cells |->
        IF \E i \in DOMAIN get_regexes_from_cores : get_regexes_from_cores[i] = cell
        THEN CellStore(cells[cell], set) ELSE cells[cell]]

\* handle_connection for the connection of client k, one item of the stream:
\* a document that compiles is applied by update_rules before the next item
\* is read, one that does not compile is logged, and bytes that do not
\* deserialize make the stream fail.
connection_document(k) ==
    /\ k \in listener.handling
    /\ k \notin listener.failed
    /\ listener.buf[k] # <<>>
    /\ LET doc == Head(listener.buf[k])
           r == RegexSetNew(doc.rules)
       IN  /\ listener' = [listener EXCEPT !.buf[k] = Tail(@),
                                           !.reads = Append(@, <<k, doc>>),
                                           !.failed = IF doc.json THEN @ ELSE @ \cup {k}]
           /\ regexes' = IF doc.json /\ r.ok THEN update_rules(regexes, r.set) ELSE regexes
    /\ UNCHANGED <<cellLock, daemon, installed, prevInstalled, writes, rejected, seen>>
    /\ UNCHANGED <<flowVars, storeVars, parseVars, rxVars, cloneVars, loopVars, ownVars, monVars>>

\* handle_connection returns: the stream has ended, the client having closed
\* its end with nothing left to read, or the stream having failed; the
\* connection is dropped.
connection_end(k) ==
    /\ k \in listener.handling
    /\ \/ k \in listener.failed
       \/ listener.buf[k] = <<>> /\ listener.conn[k] = "closed"
    /\ listener' = [listener EXCEPT !.handling = @ \ {k}, !.ended = @ \cup {k}]
    /\ UNCHANGED <<flowVars, ruleVars, storeVars, parseVars, rxVars, cloneVars, loopVars, ownVars, monVars>>

NextServe ==
    \/ \E k \in Clients : client_connect(k)
    \/ \E k \in Clients, doc \in ClientDocuments : client_write(k, doc)
    \/ \E k \in Clients : client_close(k)
    \/ listener_accept
    \/ \E k \in Clients : connection_document(k)
    \/ \E k \in Clients : connection_end(k)

(***************************************************************************)
(* The specifications.  Every one starts in the state after construction:  *)
(* FilterCtx::new followed by one clone per core (an empty flow table,     *)
(* every cell holding the empty rule set), the daemon about to accept, the *)
(* store about to receive with an empty cache and an empty directory.      *)
(***************************************************************************)
Init ==
    /\ flows = <<>>
    /\ now = 0
    /\ shardLock = [s \in Shards |-> NoOwner]
    /\ fop = [c \in Cores \cup {Pruner} |-> IdleOp]
    /\ lastAdd = [f \in FlowKeys |-> NoTime]
    /\ dirty = [f \in FlowKeys |-> FALSE]
    /\ expired = [f \in FlowKeys |-> FALSE]
    /\ lastCheck = NoCheck
    /\ lastPrune = NoPrune
    /\ regexes = [cell \in Cells |-> EmptyRegexSet]
    /\ cellLock = [cell \in Cells |-> FALSE]
    /\ daemon = DaemonIdle
    /\ installed = EmptyRegexSet
    /\ prevInstalled = EmptyRegexSet
    /\ writes = [cell \in Cells |-> 0]
    /\ rejected = NotRejected
    /\ seen = NoSeen
    /\ channel = <<>>
    /\ files = <<>>
    /\ cache = <<>>
    /\ fds = {}
    /\ store = StoreIdle
    /\ received = [f \in AllFlows |-> <<>>]
    /\ sent = 0
    /\ pk = ParseIdle
    /\ fk = KeyIdle
    /\ rx = [c \in Cores |-> RxIdle]
    /\ delivered = 0
    /\ admitted = {}
    /\ accepted = [w \in WireFrames |-> 0]
    /\ ctxs = [k \in Holders |->
                 IF k = Main THEN FilterCtx_new(OriginalCell)
                 ELSE FilterCtx_clone(FilterCtx_new(OriginalCell), CellOf(k))]
    /\ is_running = TRUE
    /\ lcore = [c \in Cores |-> LcoreStart(<<"Receive">>)]
    /\ pool = PoolStart
    /\ monitor = MonitorStart
    /\ listener = ListenerStart

\* The state after FilterCtx::new alone: no RxCore has been made yet.
InitClone ==
    /\ flows = <<>>
    /\ now = 0
    /\ shardLock = [s \in Shards |-> NoOwner]
    /\ fop = [c \in Cores \cup {Pruner} |-> IdleOp]
    /\ lastAdd = [f \in FlowKeys |-> NoTime]
    /\ dirty = [f \in FlowKeys |-> FALSE]
    /\ expired = [f \in FlowKeys |-> FALSE]
    /\ lastCheck = NoCheck
    /\ lastPrune = NoPrune
    /\ regexes = [cell \in Cells |-> EmptyRegexSet]
    /\ cellLock = [cell \in Cells |-> FALSE]
    /\ daemon = DaemonIdle
    /\ installed = EmptyRegexSet
    /\ prevInstalled = EmptyRegexSet
    /\ writes = [cell \in Cells |-> 0]
    /\ rejected = NotRejected
    /\ seen = NoSeen
    /\ channel = <<>>
    /\ files = <<>>
    /\ cache = <<>>
    /\ fds = {}
    /\ store = StoreIdle
    /\ received = [f \in AllFlows |-> <<>>]
    /\ sent = 0
    /\ pk = ParseIdle
    /\ fk = KeyIdle
    /\ rx = [c \in Cores |-> RxIdle]
    /\ delivered = 0
    /\ admitted = {}
    /\ accepted = [w \in WireFrames |-> 0]
    /\ ctxs = [k \in {Main} |-> FilterCtx_new(OriginalCell)]
    /\ is_running = TRUE
    /\ lcore = [c \in Cores |-> LcoreStart(<<"Receive">>)]
    /\ pool = PoolStart
    /\ monitor = MonitorStart
    /\ listener = ListenerStart

\* The state the loops start in: the cores hold their clones and any queue
\* vectors, a first rule update has installed the rule "a" in every cell, and
\* no core has entered rx_loop yet.
InitLoop ==
    /\ flows = <<>>
    /\ now = 0
    /\ shardLock = [s \in Shards |-> NoOwner]
    /\ fop = [c \in Cores \cup {Pruner} |-> IdleOp]
    /\ lastAdd = [f \in FlowKeys |-> NoTime]
    /\ dirty = [f \in FlowKeys |-> FALSE]
    /\ expired = [f \in FlowKeys |-> FALSE]
    /\ lastCheck = NoCheck
    /\ lastPrune = NoPrune
    /\ regexes = [cell \in Cells |-> {<<97>>}]
    /\ cellLock = [cell \in Cells |-> FALSE]
    /\ daemon = DaemonIdle
    /\ installed = {<<97>>}
    /\ prevInstalled = EmptyRegexSet
    /\ writes = [cell \in Cells |-> 1]
    /\ rejected = NotRejected
    /\ seen = NoSeen
    /\ channel = <<>>
    /\ files = <<>>
    /\ cache = <<>>
    /\ fds = {}
    /\ store = StoreIdle
    /\ received = [f \in AllFlows |-> <<>>]
    /\ sent = 0
    /\ pk = ParseIdle
    /\ fk = KeyIdle
    /\ rx = [c \in Cores |-> RxIdle]
    /\ delivered = 0
    /\ admitted = {}
    /\ accepted = [w \in WireFrames |-> 0]
    /\ ctxs = [k \in Holders |->
                 IF k = Main THEN FilterCtx_new(OriginalCell)
                 ELSE FilterCtx_clone(FilterCtx_new(OriginalCell), CellOf(k))]
    /\ is_running = TRUE
    /\ lcore \in [Cores -> {LcoreStart(queues) : queues \in QueueVectors}]
    /\ pool = PoolStart
    /\ monitor = MonitorStart
    /\ listener = ListenerStart

SpecFlows == Init /\ [][NextFlows]_vars

SpecRules == Init /\ [][NextRules]_vars

\* The thread of the daemon runs: a step it can take by itself, without a
\* client sending or closing, it takes.
SpecRulesLive ==
    /\ SpecRules
    /\ WF_vars(handle_connection_failed)
    /\ WF_vars(update_rules_lock)
    /\ WF_vars(update_rules_store)

SpecStore == Init /\ [][NextStore]_vars

SpecParse == Init /\ [][NextParse]_vars

SpecFlowKey == Init /\ [][NextFlowKey]_vars

Spec == Init /\ [][Next]_vars

SpecClone == InitClone /\ [][NextClone]_vars

SpecFaults == Init /\ [][NextFaults]_vars

SpecClose == Init /\ [][NextClose]_vars

SpecLoop == InitLoop /\ [][NextLoop]_vars

\* The thread of a core is pinned to a CPU of its own and never blocks:
\* whatever step it can take, it takes.
SpecLoopLive == SpecLoop /\ \A c \in Cores : WF_vars(LcoreStep(c))

SpecOwn == Init /\ [][NextOwn]_vars

SpecMonitor == Init /\ [][NextMonitor]_vars

\* The monitor runs in the main thread, which the operating system schedules
\* fairly, and time passes.
SpecMonitorLive == SpecMonitor /\ WF_vars(MonitorStep) /\ WF_vars(time_passes)

SpecHandOff == Init /\ [][NextHandOff]_vars

\* The store runs in a thread of its own that the operating system schedules
\* fairly: a step it can take, it takes.
SpecHandOffLive == SpecHandOff /\ WF_vars(StoreStep)

\* The listener of the rule daemon and the clients that connect to it.
SpecServe == Init /\ [][NextServe]_vars

C2_HitKeepsEntry ==
    \A c \in Cores : fop[c].pc = "hit" => fop[c].flow \in DOMAIN flows

C2_RefreshStep ==
    \A c \in Cores :
        (fop[c].pc = "hit" /\ fop'[c].pc = "idle") =>
            /\ fop[c].flow \in DOMAIN flows'
            /\ flows'[fop[c].flow] = now
            /\ fop[c].flow \in DOMAIN flows
            /\ flows'[fop[c].flow] >= flows[fop[c].flow]

C2_AtomicRefresh == [](C2_HitKeepsEntry) /\ [][C2_RefreshStep]_vars

\* A core holds the entry between lookup and write while a prune that would
\* remove the entry, now older than the timeout, waits at the entry's shard.
C2_Witness ==
    \E c \in Cores :
        /\ fop[c].pc = "hit"
        /\ fop[Pruner].pc = "prune" /\ fop[Pruner].cursor = ShardOf(fop[c].flow)
        /\ fop[c].flow \in DOMAIN flows
        /\ ~KeepEntry(flows[fop[c].flow], now)

(***************************************************************************)
(* Claims about the rule daemon, checked under SpecRules.                  *)
(***************************************************************************)
DaemonUpdating == daemon.pc \in {"lock", "store"}

\* C3: once update_rules(R') has returned every core's cell holds R' and every
\* check_match evaluates against R'; at any time a check_match evaluates
\* against the complete previous rule set or the complete new one; and the
\* update writes every core's cell exactly once, the cells being distinct.
C3_HotSwap ==
    /\ seen.core # 0 => seen.rules \in {prevInstalled, installed}
    /\ ~DaemonUpdating =>
          /\ \A c \in Cores : regexes[CellOf(c)] = installed /\ ~cellLock[CellOf(c)]
          /\ seen.core # 0 => seen.rules = installed
          /\ \/ \A c \in Cores : writes[CellOf(c)] = 1
             \/ installed = EmptyRegexSet /\ \A cell \in Cells : writes[cell] = 0
    /\ \A c, d \in Cores : c # d => CellOf(c) # CellOf(d)

\* A second rule set has replaced a first, non-empty one on every core and a
\* core has matched a payload against it.
C3_Witness ==
    /\ ~DaemonUpdating
    /\ prevInstalled # EmptyRegexSet /\ installed # prevInstalled
    /\ \A c \in Cores : writes[CellOf(c)] = 1
    /\ seen.core # 0 /\ seen.rules = installed /\ seen.ret

\* C4: a document with a regex that does not compile changes no cell and
\* starts no update: every cell holds what it held before the document was
\* read and every core matches against that rule set.
C4_RejectedDocument ==
    rejected.active =>
        /\ regexes = rejected.before
        /\ ~DaemonUpdating
        /\ \A cell \in Cells : ~cellLock[cell]
        /\ seen.core # 0 => seen.rules = rejected.before[CellOf(seen.core)]

\* A document holding a valid regex that is not installed, next to an invalid
\* one, was rejected while a non-empty rule set was active, and a core has
\* since matched a payload against that rule set.
C4_Witness ==
    /\ rejected.active
    /\ \E p \in rejected.rules : Compiles(p) /\ p \notin installed
    /\ installed # EmptyRegexSet
    /\ seen.core # 0 /\ seen.ret

C6_DescriptorBound == Cardinality(fds) <= CacheCapacity

(***************************************************************************)
(* Claims about the parser, checked under SpecParse and SpecFlowKey.       *)
(***************************************************************************)
\* C7: L4Context::new returns an error or a context whose payload lies within
\* the frame: offset + length is at most the frame's length.
C7_PayloadWithinFrame ==
    (pk.pc = "done" /\ pk.res.ok) => pk.res.offset + pk.res.length <= data_len(pk.frame)

\* The context of the other direction: source and destination swapped, any
\* payload offset and length.
Reversed(ctx, offset, length) ==
    [ctx EXCEPT !.src = ctx.dst, !.dst = ctx.src, !.offset = offset, !.length = length]

\* C8: the flow of a context equals the flow of every context with the same
\* VLAN id and protocol and the endpoints swapped, whatever its payload offset
\* and length: the keys are equal and feed the same values to the hasher, so
\* that both directions find the same table entry and the same file.
C8_DirectionIndependent ==
    fk.pc = "flow" =>
        \A offset \in PayloadOffsets, length \in PayloadLengths :
            LET back == get_flow(Reversed(fk.ctx, offset, length)) IN
            /\ back = fk.flow
            /\ FlowHashInput(back) = FlowHashInput(fk.flow)

\* get_flow was applied to a tagged context whose source is the smaller
\* endpoint, so that the flow lists the endpoints in the other order.
C8_Witness ==
    /\ fk.pc = "flow"
    /\ SocketAddrLess(fk.ctx.src, fk.ctx.dst)
    /\ fk.ctx.vlan_id # NoVlan
    /\ fk.flow[2] = fk.ctx.dst /\ fk.flow[3] = fk.ctx.src

(***************************************************************************)
(* Claims about the pipeline, checked under Spec.                          *)
(***************************************************************************)
\* The payload of core c's frame matches the rule set of c's cell.
PayloadMatches(c) ==
    \E p \in regexes[CellOf(c)] : Contains(PayloadSlice(rx[c].mbuf, rx[c].ctx), p)

\* The steps of a core whose frame's payload matches: from the match to
\* add_flow, which leaves the flow in the table, to send_packet, which puts
\* exactly the pair of the flow and the frame on the channel.
C9_AdmitSteps ==
    \A c \in Cores :
        /\ (rx[c].pc = "match" /\ rx'[c] # rx[c] /\ PayloadMatches(c)) =>
               rx'[c] = [rx[c] EXCEPT !.pc = "add"]
        /\ (rx[c].pc = "add" /\ rx'[c] # rx[c]) => rx'[c].pc = "insert"
        /\ (rx[c].pc = "insert" /\ rx'[c] # rx[c]) =>
               /\ rx[c].flow \in DOMAIN flows'
               /\ rx'[c] = [rx[c] EXCEPT !.pc = "send", !.ts = 0]
        /\ (rx[c].pc = "send" /\ rx'[c] # rx[c]) =>
               channel' = Append(channel, [flow |-> rx[c].flow, packet |-> rx[c].mbuf])

\* Every acceptance of a frame is one pair on its way to the store or one
\* packet the store has received for the frame's flow, and what the store has
\* received and finished writing is what the flow's file reads back as.
C9_OneRecordEach ==
    /\ \A w \in WireFrames :
          accepted[w] = InFlight(w)
                        + (IF L4Context_new(w).ok THEN CountIn(received[FlowOfFrame(w)], w) ELSE 0)
    /\ \A f \in FlowKeys :
          (store.pc = "recv" \/ store.flow # f) => Decode(FileOf(f)) = received[f]

\* C9: a core that processes a parsed frame whose flow is not in the table and
\* whose payload matches its rule set inserts the flow and hands the frame to
\* the channel; the flow is present after the insert and exactly one record of
\* the frame is appended to the flow's file.
C9_AdmissionOnMatch == []C9_OneRecordEach /\ [][C9_AdmitSteps]_vars

\* One frame was delivered, matched and admitted; its flow is in the table and
\* the flow's file holds one record, the frame.
C9_Witness ==
    \E w \in WireFrames :
        /\ accepted = [v \in WireFrames |-> IF v = w THEN 1 ELSE 0]
        /\ \A c \in Cores : rx[c].pc = "poll"
        /\ channel = <<>> /\ store.pc = "recv"
        /\ FlowOfFrame(w) \in DOMAIN flows
        /\ FlowOfFrame(w) \in admitted
        /\ Decode(FileOf(FlowOfFrame(w))) = <<w>>

\* The steps of a core on a frame that is rejected, from process_packet to
\* the drop, change neither the flow table nor the channel nor the files.
C10_RejectSteps ==
    \A c \in Cores :
        (/\ rx[c].pc \in {"process", "callback", "check", "match"}
         /\ rx'[c] # rx[c]
         /\ rx'[c].pc \in {"callback", "check", "match", "poll"}) =>
            /\ flows' = flows
            /\ channel' = channel
            /\ files' = files
            /\ (rx'[c].pc = "poll" /\ rx[c].pc = "match") => ~PayloadMatches(c)

\* A flow no payload of which has matched is not in the table, has no pair on
\* the channel and no file: the flows of the table and of the files were all
\* admitted by a match.
C10_OnlyAdmitted ==
    /\ DOMAIN flows \subseteq admitted
    /\ \A i \in 1..Len(channel) : channel[i].flow \in admitted
    /\ DOMAIN files \subseteq {to_filename(f) : f \in admitted}
    /\ \A f \in FlowKeys \ admitted : FileOf(f) = <<>> /\ received[f] = <<>>

\* C10: a frame whose flow is not in the table and whose payload does not
\* match is dropped without any effect on the flow table, the channel or the
\* files; every flow in the table was inserted after a match and every file
\* belongs to a flow that was admitted.
C10_RejectionNoEffect == []C10_OnlyAdmitted /\ [][C10_RejectSteps]_vars

\* A core has dropped a frame whose payload did not match its installed,
\* non-empty rule set; the table, the channel and the directory are empty.
C10_Witness ==
    \E c \in Cores :
        /\ rx[c].pc = "poll" /\ rx[c].why = "unmatched" /\ rx[c].rules # EmptyRegexSet
        /\ flows = <<>> /\ channel = <<>> /\ files = <<>>
        /\ admitted = {}

(***************************************************************************)
(* The contracts of the flow-table methods, checked under SpecFlows.       *)
(***************************************************************************)
\* The steps of check_if_existing_flow.  A call that finds no entry returns
\* false and leaves the table as it is; a call that finds the entry keeps
\* the table as it is while it holds the entry, and returns true with the
\* entry's timestamp set to the clock value and every other entry unchanged.
C13_CheckSteps ==
    /\ \A c \in Cores :
          (fop[c].pc = "idle" /\ fop'[c].pc = "hit") =>
              /\ fop'[c].flow \in DOMAIN flows
              /\ flows' = flows
    /\ (lastCheck' # lastCheck /\ lastCheck'.flow # NoFlow /\ ~lastCheck'.ret) =>
          /\ lastCheck'.flow \notin DOMAIN flows
          /\ flows' = flows
    /\ (lastCheck' # lastCheck /\ lastCheck'.flow # NoFlow /\ lastCheck'.ret) =>
          /\ lastCheck'.flow \in DOMAIN flows
          /\ DOMAIN flows' = DOMAIN flows
          /\ flows'[lastCheck'.flow] = now
          /\ \A k \in DOMAIN flows \ {lastCheck'.flow} : flows'[k] = flows[k]

\* A call that found the entry still has it when it writes the timestamp.
C13_FoundStaysFound ==
    \A c \in Cores : fop[c].pc = "hit" => fop[c].flow \in DOMAIN flows

\* C13: check_if_existing_flow(f) returns true exactly when f is a key of the
\* table at the moment of the lookup; returning true it sets f's timestamp to
\* the current time and changes no other entry; returning false it leaves the
\* table unchanged and does not insert f.
C13_CheckContract == []C13_FoundStaysFound /\ [][C13_CheckSteps]_vars

\* A check has just returned true for a flow, whose timestamp is now the
\* clock value, while the other flow keeps the older timestamp it had.
C13_Witness ==
    \E g \in FlowKeys :
        /\ lastCheck.flow # NoFlow /\ lastCheck.ret
        /\ g # lastCheck.flow /\ g \in DOMAIN flows
        /\ flows[lastCheck.flow] = now
        /\ flows[g] < now

\* The steps of add_flow: the call reads the clock, and its insert leaves the
\* key present with the clock value it read, every other entry unchanged.
C14_AddSteps ==
    \A c \in Cores :
        /\ (fop[c].pc = "idle" /\ fop'[c].pc = "add") =>
               /\ fop'[c].ts = now
               /\ flows' = flows
        /\ (fop[c].pc = "add" /\ fop'[c].pc = "idle") =>
               /\ DOMAIN flows' = DOMAIN flows \cup {fop[c].flow}
               /\ flows'[fop[c].flow] = fop[c].ts
               /\ fop[c].ts <= now
               /\ \A k \in DOMAIN flows \ {fop[c].flow} : flows'[k] = flows[k]

\* The keys of the table are canonical: the larger endpoint comes first, so
\* that no two keys stand for the same VLAN id, protocol and pair of endpoints.
C14_OneEntryPerFlow ==
    /\ \A k \in DOMAIN flows : ~SocketAddrLess(k[2], k[3])
    /\ \A k, l \in DOMAIN flows :
          (k[1] = l[1] /\ k[4] = l[4] /\ {k[2], k[3]} = {l[2], l[3]}) => k = l

\* C14: add_flow(f) leaves exactly one entry for f, whether or not f was
\* present, with the clock value the call read as its timestamp, and leaves
\* every other entry unchanged; the table never holds two entries for one
\* canonical flow.
C14_AddContract == []C14_OneEntryPerFlow /\ [][C14_AddSteps]_vars

\* An add_flow overwrote the entry of a flow that was present: the flow's
\* timestamp is the clock value of the second call, later than the first
\* call's, and the other flow's entry is older.
C14_Witness ==
    \E f, g \in FlowKeys :
        /\ f # g /\ f \in DOMAIN flows /\ g \in DOMAIN flows
        /\ lastAdd[f] = now /\ flows[f] = now /\ now > 1
        /\ lastAdd[g] = 0 /\ flows[g] = 1
        /\ \A c \in Cores : fop[c].pc = "idle"

\* C15: a retain of prune_flows keeps, with its timestamp, every entry of the
\* shard whose age is at most the timeout, an age equal to the timeout
\* included, and removes every entry whose age is greater.
C15_PruneStrict ==
    [][\A k \in DOMAIN flows :
          (/\ fop[Pruner].pc = "prune"
           /\ fop'[Pruner] # fop[Pruner]
           /\ ShardOf(k) = fop[Pruner].cursor) =>
              /\ (now - flows[k] <= Timeout) => (k \in DOMAIN flows' /\ flows'[k] = flows[k])
              /\ (now - flows[k] > Timeout) => k \notin DOMAIN flows']_vars

(***************************************************************************)
(* Further claims about the pipeline, checked under Spec.                  *)
(***************************************************************************)
\* The payload slice of a frame that parses.
PayloadOfFrame(w) == PayloadSlice(w, L4Context_new(w))

\* The steps of a core whose frame's flow is in the table: the hit writes the
\* clock value into the flow's entry alone and takes the frame to
\* send_packet without a match against the rules, whatever the payload, the
\* direction and the core; send_packet puts the pair on the channel.
C11_HitSteps ==
    \A c \in Cores :
        /\ (rx[c].pc = "check" /\ rx'[c] # rx[c] /\ rx[c].flow \in DOMAIN flows) =>
               /\ rx'[c].pc = "send"
               /\ rx'[c].mbuf = rx[c].mbuf /\ rx'[c].flow = rx[c].flow
               /\ flows' = [flows EXCEPT ![rx[c].flow] = now]
               /\ regexes' = regexes
               /\ accepted'[rx[c].mbuf] = accepted[rx[c].mbuf] + 1
        /\ (rx[c].pc = "send" /\ rx'[c] # rx[c]) =>
               channel' = Append(channel, [flow |-> rx[c].flow, packet |-> rx[c].mbuf])

\* No step removes an entry that was written less than Timeout ago.
C11_FreshSurvives ==
    \A k \in DOMAIN flows : (now - flows[k] < Timeout) => k \in DOMAIN flows'

\* A frame at the check carries the key of its conversation: the key of the
\* frame with source and destination swapped is the same.
C11_EitherDirection ==
    \A c \in Cores :
        rx[c].pc = "check" =>
            rx[c].flow = get_flow([rx[c].ctx EXCEPT !.src = rx[c].ctx.dst, !.dst = rx[c].ctx.src])

\* C11: a packet of a flow that is in the table when the core checks it, in
\* either direction and on any core, is handed off without being matched
\* against the rules and refreshes the flow's timestamp, and an entry
\* refreshed less than the timeout ago survives every prune.
C11_HitPath == []C11_EitherDirection /\ [][C11_HitSteps /\ C11_FreshSurvives]_vars

\* A flow was admitted at clock 0 and hit by a frame of the other direction,
\* with a payload that matches no rule, before the timeout; the prune that
\* visited the flow's shard when the timeout had passed since the admission
\* left the flow in the table, and the flow's file holds the two frames.
C11_Witness ==
    /\ lastPrune.at = Timeout
    /\ store.pc = "recv"
    /\ installed # EmptyRegexSet
    /\ \E f \in DOMAIN flows :
          /\ lastPrune.shard = ShardOf(f)
          /\ lastAdd[f] = 0 /\ dirty[f] /\ flows[f] > 0 /\ flows[f] < Timeout
          /\ LET recs == Decode(FileOf(f)) IN
                /\ Len(recs) = 2
                /\ recs[1] \in WireFrames /\ recs[2] \in WireFrames
                /\ FlowOfFrame(recs[1]) = f /\ FlowOfFrame(recs[2]) = f
                /\ L4Context_new(recs[1]).src = L4Context_new(recs[2]).dst
                /\ ~\E p \in installed \cup prevInstalled :
                       Contains(PayloadOfFrame(recs[2]), p)

\* The steps of the daemon leave the flow table, the channel and the cell of
\* the original context as they are; a core admits a new flow only on a
\* payload that matches what its cell holds, which is the rule set in force
\* or, during an update, the one before; a hit consults no rule.
C12_UpdateSteps ==
    /\ (daemon' # daemon \/ regexes' # regexes \/ cellLock' # cellLock) =>
          /\ flows' = flows
          /\ channel' = channel
          /\ files' = files
          /\ regexes'[OriginalCell] = regexes[OriginalCell]
    /\ \A c \in Cores :
          /\ (rx[c].pc = "match" /\ rx'[c] # rx[c]) =>
                /\ regexes[CellOf(c)] \in {installed, prevInstalled}
                /\ rx'[c].pc = "add" <=>
                      \E p \in regexes[CellOf(c)] : Contains(PayloadOfFrame(rx[c].mbuf), p)
          /\ (rx[c].pc = "check" /\ rx'[c] # rx[c] /\ rx[c].flow \in DOMAIN flows) =>
                rx'[c].pc = "send"

\* Once update_rules has returned, every core's cell holds the new rule set
\* and nothing of the old one.
C12_NewRulesInForce ==
    ~DaemonUpdating => \A c \in Cores : regexes[CellOf(c)] = installed

\* C12: a rule update changes only the per-core cells: it leaves the flow
\* table and the channel unchanged, so that a flow admitted under the old
\* rule set keeps being hit and refreshed, while a new flow is admitted only
\* on a payload that matches the new rule set.
C12_RuleUpdateFrame == []C12_NewRulesInForce /\ [][C12_UpdateSteps]_vars

\* A second rule set replaced the first on every core; a frame whose payload
\* matches the first rule set only, accepted once by a match under that rule
\* set, was then accepted again by a hit on a core whose cell held the second.
C12_Witness ==
    \E c \in Cores :
        /\ ~DaemonUpdating
        /\ prevInstalled # EmptyRegexSet /\ installed # EmptyRegexSet
        /\ rx[c].pc = "send"
        /\ rx[c].rules = installed
        /\ \E p \in prevInstalled : Contains(PayloadOfFrame(rx[c].mbuf), p)
        /\ ~\E p \in installed : Contains(PayloadOfFrame(rx[c].mbuf), p)
        /\ accepted[rx[c].mbuf] = 2
        /\ rx[c].flow \in admitted
        /\ dirty[rx[c].flow]

\* C17: the callback is invoked only for accepted frames: a frame the
\* callback was invoked with parsed, and its flow is in the table or its
\* payload matches the rule set of the core.
C17_CallbackOnlyAccepted ==
    \A c \in Cores :
        rx[c].pc = "callback" =>
            /\ L4Context_new(rx[c].mbuf).ok
            /\ \/ FlowOfFrame(rx[c].mbuf) \in DOMAIN flows
               \/ \E p \in regexes[CellOf(c)] : Contains(PayloadOfFrame(rx[c].mbuf), p)

\* C18: every record of a flow's file is the layer-4 payload of a packet the
\* store received for the flow: the flow's file reads back as the payload
\* slices of the received packets, not as the frames.
C18_RecordIsPayload ==
    \A f \in FlowKeys :
        (store.pc = "recv" \/ store.flow # f) =>
            Decode(FileOf(f)) = [i \in 1..Len(received[f]) |-> PayloadOfFrame(received[f][i])]

(***************************************************************************)
(* The clones of the FilterCtx, checked under SpecClone.                   *)
(***************************************************************************)
\* Every context holds the same table and the same channel, and sees the one
\* table; no two contexts hold the same cell; a check_match through a context
\* reads the cell of that context.
C16_Aliased ==
    /\ \A j, k \in DOMAIN ctxs :
          /\ ctxs[j].flows = ctxs[k].flows
          /\ ctxs[j].sender = ctxs[k].sender
          /\ ctxs[j].timeout = ctxs[k].timeout
          /\ j # k => ctxs[j].regexes # ctxs[k].regexes
    /\ \A k \in DOMAIN ctxs : TableOf(ctxs[k]) = flows
    /\ (seen.core \in DOMAIN ctxs /\ seen # NoSeen) =>
          seen.rules = regexes[ctxs[seen.core].regexes]

\* A clone starts with what the cell of its source holds and leaves every
\* existing context as it is; replacing the rule set through one context
\* changes what that context's cell holds and no other context's.
C16_CloneSteps ==
    /\ \A c \in (DOMAIN ctxs') \ (DOMAIN ctxs) :
          /\ regexes'[ctxs'[c].regexes] = regexes[ctxs[Main].regexes]
          /\ \A k \in DOMAIN ctxs :
                ctxs'[k] = ctxs[k] /\ regexes'[ctxs[k].regexes] = regexes[ctxs[k].regexes]
    /\ (DOMAIN ctxs' = DOMAIN ctxs /\ regexes' # regexes) =>
          \E k \in DOMAIN ctxs :
             \A j \in (DOMAIN ctxs) \ {k} :
                /\ regexes'[ctxs[j].regexes] = regexes[ctxs[j].regexes]
                /\ \A payload \in Payloads :
                      is_match(regexes'[ctxs[j].regexes], payload)
                         = is_match(regexes[ctxs[j].regexes], payload)

\* C16: the clones and the original share one flow table and one channel,
\* while each clone has a cell of its own that starts as a copy of the
\* source's rule set; replacing the rule set of one context changes what
\* check_match returns for that context only.
C16_CloneAsymmetry == []C16_Aliased /\ [][C16_CloneSteps]_vars

\* The original's rule set was replaced before the second core was cloned and
\* the first core's after it was cloned: the second core's cell, never
\* written, holds the original's rule set, the first core's holds another
\* one, which its check_match has just matched with; the table the three
\* contexts share holds a flow.
C16_Witness ==
    /\ DOMAIN ctxs = Holders
    /\ writes[ctxs[Main].regexes] = 1 /\ writes[ctxs[1].regexes] = 1 /\ writes[ctxs[2].regexes] = 0
    /\ regexes[ctxs[2].regexes] = regexes[ctxs[Main].regexes]
    /\ regexes[ctxs[1].regexes] # regexes[ctxs[Main].regexes]
    /\ seen.core = 1 /\ seen.ret /\ seen.rules = regexes[ctxs[1].regexes]
    /\ ~is_match(regexes[ctxs[2].regexes], <<98>>) /\ is_match(seen.rules, <<98>>)
    /\ flows # <<>>

(***************************************************************************)
(* Error handling, checked under SpecFaults.                               *)
(***************************************************************************)
\* C19: a send_packet that fails because the Receiver is gone drops the frame
\* and returns: the core is back at polling its queues, ready for the
\* following frames, and the channel is as it was.
C19_SendFailureNonFatal ==
    [][\A c \in Cores :
          (rx[c].pc = "send" /\ ReceiverGone /\ rx'[c] # rx[c]) =>
              /\ rx'[c].pc = "poll"
              /\ channel' = channel]_vars

\* C20: an I/O error in the saving loop drops the current packet at most:
\* every step of the loop body leads to the next step of the body or back to
\* receiving, and the loop is never left.
C20_IoErrorNonFatal ==
    [][(store.pc \in {"lookup", "insert", "write_len", "write_data"} /\ store' # store) =>
          store'.pc \in {"insert", "write_len", "write_data", "recv"}]_vars

(***************************************************************************)
(* The channel and the end of the saving loop, checked under SpecClose.    *)
(***************************************************************************)
\* The records of every file are the packets received for its flow, and
\* every pair that was sent has been received.
AllPairsWritten ==
    /\ \A f \in AllFlows : Decode(FileOf(f)) = received[f]
    /\ \A k \in Holders : \A n \in Handed(k) :
          \E f \in AllFlows : \E i \in 1..Len(received[f]) : received[f][i] = <<k, n>>

\* C21: when the saving loop has returned, the channel is closed (no Sender
\* is left and no pair is queued), every pair sent before the close has been
\* written, and no file descriptor of the cache is open.
C21_ReturnClosesAll ==
    store.pc = "returned" =>
        /\ ChannelClosed
        /\ channel = <<>>
        /\ AllPairsWritten
        /\ fds = {}

\* The pairs of one holder are queued in the order of their numbers.
C23_QueuedInOrder ==
    \A i, j \in 1..Len(channel) :
        (i < j /\ channel[i].packet[1] = channel[j].packet[1]) =>
            channel[i].packet[2] < channel[j].packet[2]

\* The store receives the n-th pair of a holder after the n-1 before it.
C23_ReceiveSteps ==
    (store.pc = "recv" /\ store'.pc = "lookup") =>
        \A m \in 1..(store'.packet[2] - 1) :
            \E f \in AllFlows : \E i \in 1..Len(received[f]) :
                received[f][i] = <<store'.packet[1], m>>

\* C23: the pairs one holder of a Sender hands off are received in the order
\* it sent them, however the sends of the other holders fall in between.
C23_PerProducerFifo == []C23_QueuedInOrder /\ [][C23_ReceiveSteps]_vars

\* The second pair of core 1 is being written, after its first pair and a
\* pair of core 2 sent in between; the two pairs of core 1 are of two flows.
C23_Witness ==
    /\ store.pc = "lookup"
    /\ store.packet = <<1, 2>>
    /\ \E f \in StoreFlows :
          /\ f # store.flow
          /\ received[f] = <<<<1, 1>>, <<2, 1>>>>

(***************************************************************************)
(* The polling loops, checked under SpecLoop and SpecLoopLive.             *)
(***************************************************************************)
\* A core that reads the flag as false leaves the loop at once; a core
\* leaves the loop in no other way; a core that has left does nothing more;
\* and when process_packet returns, the core goes on with its burst.
C22_LoopSteps ==
    \A c \in Cores :
        /\ (lcore[c].pc = "load" /\ ~is_running /\ lcore'[c] # lcore[c]) =>
               lcore'[c].pc = "exited"
        /\ (lcore[c].pc # "exited" /\ lcore'[c].pc = "exited") =>
               (lcore[c].pc = "load" /\ ~is_running)
        /\ lcore[c].pc = "exited" => (lcore'[c] = lcore[c] /\ rx'[c] = rx[c])
        /\ (lcore[c].pc = "call" /\ lcore'[c] # lcore[c]) =>
               (lcore'[c].pc = "mbuf" /\ rx[c].why \in {"unparsed", "unmatched", "sent"})

AllExited == \A c \in Cores : lcore[c].pc = "exited"

\* C22: once the running flag is false every core leaves its polling loop;
\* a core starts no pass after it has read the flag as false, and only the
\* flag ends the loop, whatever happened to the frames.
C22_CooperativeShutdown ==
    /\ [][C22_LoopSteps]_vars
    /\ (~is_running) ~> AllExited

\* Every core has left its loop; a Receive core had a frame sent to the store
\* and a Sink core counted a frame before they did.
C22_Witness ==
    /\ ~is_running
    /\ AllExited
    /\ \E c \in Cores : lcore[c].mode = "process" /\ rx[c].why = "sent"
    /\ \E c \in Cores : lcore[c].mode = "sink" /\ lcore[c].nb_pkts > 0

\* A core whose first queue is Sink has called process_packet for no frame
\* and is nowhere in the callback; a core whose first queue is Receive has
\* called it for every frame it counted.
C28_CallsByFirstQueue ==
    \A c \in Cores :
        IF lcore[c].rxqueues[1] = "Sink"
        THEN lcore[c].calls = 0 /\ lcore[c].polled = {} /\ rx[c] = RxIdle
        ELSE lcore[c].calls = lcore[c].nb_pkts

\* The steps of a core whose first queue is Sink leave the flow table, the
\* rule cells, the channel and the store as they are; every frame of a burst
\* is counted with its length and dropped.
C28_SinkSteps ==
    \A c \in Cores :
        (lcore[c].rxqueues[1] = "Sink" /\ lcore'[c] # lcore[c]) =>
            /\ UNCHANGED <<flowVars, ruleVars, storeVars, rx>>
            /\ (lcore[c].pc = "mbuf" /\ lcore[c].mbufs # <<>>) =>
                  /\ lcore'[c].nb_pkts = lcore[c].nb_pkts + 1
                  /\ lcore'[c].nb_bytes = lcore[c].nb_bytes + Len(Head(lcore[c].mbufs))
                  /\ lcore'[c].mbufs = Tail(lcore[c].mbufs)

\* C28: the type of the first queue alone fixes what a core does: with Sink
\* first it counts and drops the frames of all its queues and touches nothing
\* else; with Receive first every frame of every queue goes to
\* process_packet, those of a later Sink queue too.
C28_FirstQueueDecides == []C28_CallsByFirstQueue /\ [][C28_SinkSteps]_vars

\* A core with the queues (Receive, Sink) has passed a frame of its Sink
\* queue to process_packet and the frame is on the channel, while a core with
\* the queues (Sink, Receive) has counted a frame.
C28_Witness ==
    /\ channel # <<>>
    /\ \E c, d \in Cores :
          /\ lcore[c].rxqueues = <<"Receive", "Sink">>
          /\ lcore[c].polled = {2}
          /\ rx[c].why = "sent"
          /\ lcore[d].rxqueues = <<"Sink", "Receive">>
          /\ lcore[d].nb_pkts = 1

(***************************************************************************)
(* The files of the flows, checked under SpecStore.                        *)
(***************************************************************************)
\* The canonical flows: those of the store and of the wire, and the flows of
\* all contexts, with and without a VLAN id, over IPv4 and IPv6, TCP and UDP.
CanonicalFlows == AllFlows \cup {get_flow(ctx) : ctx \in Contexts}

\* The filename of each canonical flow, derived once, ...
FileNames == [f \in CanonicalFlows |-> to_filename(f)]

\* ... is what any later derivation yields, and two flows share no filename.
C24_DistinctNames ==
    /\ \A f \in AllFlows : to_filename(f) = FileNames[f]
    /\ \A f, g \in CanonicalFlows : f # g => FileNames[f] # FileNames[g]

\* A step that changes the directory appends to the file of the flow the
\* store is working on, or creates it empty, and leaves every other file and
\* what that file already held as they were.
C24_FileSteps ==
    files' # files =>
        /\ \A name \in DOMAIN files :
              /\ name \in DOMAIN files'
              /\ name # FileNames[store.flow] => files'[name] = files[name]
        /\ DOMAIN files' \subseteq (DOMAIN files) \cup {FileNames[store.flow]}
        /\ LET old == FileOf(store.flow)
               new == files'[FileNames[store.flow]]
           IN  Len(old) <= Len(new) /\ SubSeq(new, 1, Len(old)) = old

C25_Prefix ==
    /\ DaemonUpdating =>
          \A i \in 1..Len(get_regexes_from_cores) :
              regexes[get_regexes_from_cores[i]] =
                  IF i < daemon.idx THEN installed ELSE prevInstalled
    /\ Cardinality({cell \in Cells : cellLock[cell]}) <= 1
    /\ \A c \in Cores :
          ~CellReadable(CellOf(c)) =>
              (daemon.pc = "store" /\ get_regexes_from_cores[daemon.idx] = CellOf(c))

\* The daemon goes through the vector in order, and the check_match of a
\* core whose cell is not being written returns.
C25_InOrder ==
    /\ (DaemonUpdating /\ daemon'.idx # daemon.idx) =>
           \/ daemon'.idx = daemon.idx + 1
           \/ daemon.idx = Len(get_regexes_from_cores) /\ ~DaemonUpdating'
    /\ \A c \in Cores :
           (DaemonUpdating /\ get_regexes_from_cores[daemon.idx] # CellOf(c)) =>
               ENABLED check_match(c, <<97>>)

\* C25: update_rules writes the cells one at a time in vector order under
\* one write lock at a time; between two writes a prefix of the cells holds
\* the new rule set and the rest the old one, and only the core whose cell
\* is being written can be blocked in check_match.
C25_CellByCell == []C25_Prefix /\ [][C25_InOrder]_vars

\* The daemon holds the lock of the second cell; the first cell holds the new
\* rule set, the second still the old, different one; and the core of the
\* first cell has just matched a payload against the new set.
C25_Witness ==
    /\ daemon.pc = "store" /\ daemon.idx = 2
    /\ installed # prevInstalled /\ prevInstalled # EmptyRegexSet
    /\ regexes[get_regexes_from_cores[1]] = installed
    /\ regexes[get_regexes_from_cores[2]] = prevInstalled
    /\ seen.core = 1 /\ seen.rules = installed /\ seen.ret

(***************************************************************************)
(* Documents the daemon does not accept, checked under SpecRules and       *)
(* SpecRulesLive.                                                          *)
(***************************************************************************)
\* The documents that compile.
ValidDocuments == {doc \in Documents : doc.json /\ RegexSetNew(doc.rules).ok}

\* After a document that failed to compile the daemon is still serving the
\* connection; when it is reading, any valid document starts the update that
\* installs the document's rules; and when no update is under way the cell
\* of every core holds what was installed last.
C26_StillServing ==
    daemon.after.active =>
        /\ daemon.pc \in {"read", "lock", "store", "failed"}
        /\ daemon.pc = "read" =>
              \A doc \in ValidDocuments :
                  ENABLED (/\ handle_connection_document(doc)
                           /\ installed' = doc.rules
                           /\ daemon'.pc = "lock"
                           /\ daemon'.new = doc.rules)
        /\ ~DaemonUpdating => \A c \in Cores : regexes[CellOf(c)] = installed

\* The step that reads a document that fails to compile leaves the daemon
\* reading and every cell as it was.
C26_RejectStep ==
    (/\ daemon.pc = "read"
     /\ rejected'.active /\ daemon'.after.active
     /\ <<rejected, daemon.after>>' # <<rejected, daemon.after>>) =>
        /\ daemon'.pc = "read"
        /\ daemon'.after.active
        /\ UNCHANGED <<regexes, cellLock, installed>>

\* C26: a document whose regexes fail to compile does not end the
\* connection: the daemon keeps reading it, and the next valid document of
\* the connection is compiled and installed on every core.
C26_RejectionKeepsConnection == []C26_StillServing /\ [][C26_RejectStep]_vars

\* On one connection, a document was rejected while the rule "a" was
\* installed, and a later document has since installed another rule set on
\* every core.
C26_Witness ==
    /\ daemon.after.active
    /\ daemon.pc = "read"
    /\ daemon.after.was = {<<97>>}
    /\ installed # {<<97>>} /\ installed # EmptyRegexSet
    /\ rejected = NotRejected
    /\ \A c \in Cores : regexes[CellOf(c)] = installed /\ writes[CellOf(c)] = 1

\* Reading bytes that do not deserialize changes no cell, takes no lock and
\* starts no update; all the daemon does next is go back to accepting.
C27_MalformedSteps ==
    /\ (daemon.pc = "read" /\ daemon'.pc = "failed") =>
           UNCHANGED <<regexes, cellLock, installed, prevInstalled, writes>>
    /\ (daemon.pc = "failed" /\ daemon' # daemon) =>
           /\ daemon'.pc = "accept"
           /\ UNCHANGED <<regexes, cellLock, installed, prevInstalled, writes>>

\* C27: malformed JSON on the connection modifies no core's rule set, and
\* the daemon does not stay on the error: it returns to accepting
\* connections.
C27_MalformedTerminates ==
    /\ [][C27_MalformedSteps]_vars
    /\ (daemon.pc = "failed") ~> (daemon.pc = "accept")

\* Malformed bytes have been read on a connection that had installed a rule
\* set before; every core still holds that rule set.
C27_Witness ==
    /\ daemon.pc = "failed"
    /\ installed # EmptyRegexSet
    /\ \A c \in Cores : regexes[CellOf(c)] = installed /\ ~cellLock[CellOf(c)]

\* The frame starts with the fixed header, the tags of vids and EtherType et.
C29_Stacked(frame, vids, et) ==
    /\ Len(frame) >= Len(Layer2(vids, et))
    /\ SubSeq(frame, 1, Len(Layer2(vids, et))) = Layer2(vids, et)

\* The frame has its fixed header and ends before the last tag of vids does.
C29_EndsInStack(frame, vids, et) ==
    /\ vids # <<>>
    /\ Len(frame) >= HDR_SIZE
    /\ Len(frame) < Len(Layer2(vids, et))
    /\ frame = SubSeq(Layer2(vids, et), 1, Len(frame))

C29_EtherTypes == {IPV4_ETHER_TYPE, IPV6_ETHER_TYPE, 2054}

C29_WitnessCut ==
    /\ pk.pc = "done"
    /\ ~pk.res.ok
    /\ Len(pk.frame) = HDR_SIZE + TAG_SIZE
    /\ C29_EndsInStack(pk.frame, <<100, 200>>, IPV4_ETHER_TYPE)

\* The frame holds every header of whole, a frame whose layer-4 header
\* starts after skip bytes and is l4 bytes long.
C30_HasHeaders(frame, whole, skip, l4) ==
    /\ Len(frame) >= skip + l4
    /\ Len(frame) <= Len(whole)
    /\ frame = SubSeq(whole, 1, Len(frame))

\* What L4Context::new must answer for a TCP or UDP frame whose IP header
\* announces length declared, the headers it has to subtract taking headers
\* bytes.
C30_Answer(res, declared, headers) ==
    IF declared >= headers
    THEN res.ok /\ res.length = declared - headers
    ELSE ~res.ok /\ res.err = "Malformed Packet"

\* C30: the payload length is the IPv4 total length minus the IP and layer-4
\* header lengths, or the IPv6 payload length minus the layer-4 header
\* length; when the subtraction would go below zero the parse fails with a
\* malformed-packet error and no wrapped value comes out.
C30_PayloadLength ==
    pk.pc = "done" =>
        \A vids \in TagStacks, proto \in {TCP_PROTOCOL, UDP_PROTOCOL},
           payload \in FramePayloads :
            \A declared \in Declared(proto, payload) :
                LET l4 == Len(Layer4Header(proto, 0, 0, payload))
                    l2 == Len(Layer2(vids, IPV4_ETHER_TYPE))
                IN  /\ \A ihl \in {5, 6} :
                           C30_HasHeaders(pk.frame,
                               Ipv4Frame(vids, ihl, proto, 1, 2, payload, declared),
                               l2 + ihl * 4, l4)
                           => C30_Answer(pk.res, ihl * 4 + declared, ihl * 4 + l4)
                    /\ C30_HasHeaders(pk.frame,
                           Ipv6Frame(vids, proto, 2, 1, payload, declared),
                           l2 + 40, l4)
                       => C30_Answer(pk.res, declared, l4)
                    /\ pk.res.ok => pk.res.length \in 0..65535

\* An IPv6 TCP frame announcing 4 bytes after its IP header has been refused
\* as malformed.
C30_Witness ==
    /\ pk.pc = "done"
    /\ ~pk.res.ok
    /\ pk.res.err = "Malformed Packet"
    /\ pk.frame = Ipv6Frame(<<>>, TCP_PROTOCOL, 2, 1, <<98, 97>>, 4)

\* An IPv4 UDP frame with options whose payload length came out of the
\* subtraction.
C30_WitnessV4 ==
    /\ pk.pc = "done"
    /\ pk.res.ok
    /\ pk.res.length = 2
    /\ pk.frame = Ipv4Frame(<<100>>, 6, UDP_PROTOCOL, 1, 2, <<98, 97>>, 10)

(***************************************************************************)
(* The files across the turnover of the cache, checked under SpecStore.    *)
(***************************************************************************)
\* old is the beginning of new.
IsPrefix(old, new) == Len(old) <= Len(new) /\ SubSeq(new, 1, Len(old)) = old

\* A step of the saving loop removes no file and keeps what every file held
\* as the beginning of what it holds; opening a file on a miss leaves it
\* with the content it had.
C31_AppendSteps ==
    /\ \A name \in DOMAIN files :
          name \in DOMAIN files' /\ IsPrefix(files[name], files'[name])
    /\ (store.pc = "lookup" /\ store'.pc = "insert") =>
           /\ store.flow \notin fds
           /\ files'[to_filename(store.flow)] = FileOf(store.flow)

\* C31: the flow files are append-only across cache turnover: every step of
\* the saving loop, the eviction of a descriptor and the later reopening of
\* the file on a miss included, leaves the previous content of every file
\* as a prefix of its new content.
C31_AppendOnly == [][C31_AppendSteps]_vars

\* The store has opened again, on a miss, a file that holds one record of two
\* bytes; the descriptor that took the place of its own is still cached.
C31_Witness ==
    /\ store.pc = "insert"
    /\ store.flow \in fds
    /\ FileOf(store.flow) = to_le_bytes(2) \o <<1, 0>>
    /\ cache # <<>>
    /\ cache[1] # store.flow

(***************************************************************************)
(* The hand-off, checked under SpecHandOffLive.                            *)
(***************************************************************************)
\* The packets a core may hand off, and how often a packet stands in the
\* files as a complete record.
HandOffPackets == {<<c, n>> : c \in Cores, n \in 1..MaxSends}
TimesWritten(packet) ==
    Cardinality({fi \in UNION {{<<f, i>> : i \in 1..Len(Decode(FileOf(f)))} : f \in StoreFlows} :
                    Decode(FileOf(fi[1]))[fi[2]] = packet})
Queued(packet) == \E i \in 1..Len(channel) : channel[i].packet = packet

\* A core that has a packet to hand off can do so at once, whatever the
\* channel holds.
C32_NeverBlocks ==
    \A c \in Cores :
        (rx[c].pc = "poll" /\ Cardinality(Handed(c)) < MaxSends) =>
            \A flow \in StoreFlows : ENABLED core_send_packet(c, flow)

\* No packet stands twice in the files, nor in the files and in the channel.
C32_AtMostOnce ==
    \A packet \in HandOffPackets :
        /\ TimesWritten(packet) <= 1
        /\ Queued(packet) => TimesWritten(packet) = 0

\* C32: send_packet completes without waiting for the store whatever the
\* number of queued pairs, and every pair sent while the Receiver is alive
\* is, as long as the store lives, eventually received and written exactly
\* once, under fair scheduling of the store.
C32_HandOff ==
    /\ []C32_NeverBlocks
    /\ []C32_AtMostOnce
    /\ \A packet \in HandOffPackets :
           Queued(packet) ~> (TimesWritten(packet) = 1 \/ ReceiverGone)

\* Every packet has been sent, the last of them while two pairs or more were
\* queued; the first packet of core 1 has been written, the other three are
\* still queued and the store lives.
C32_Witness ==
    /\ Len(channel) = 3
    /\ sent = 4
    /\ ~ReceiverGone
    /\ store.pc = "recv"
    /\ TimesWritten(<<1, 1>>) = 1

(***************************************************************************)
(* The ownership of the frames, checked under SpecOwn.                     *)
(***************************************************************************)
\* The Mbufs handed out so far, and the places that hold the Mbuf id: the
\* burst of a core ("core"), the argument of a callback, the channel, the
\* loop variable of the store.
HandedOut == 1..pool.fresh
OwnersOf(id) ==
    UNION {{<<"core", c, i>> : i \in {j \in 1..Len(pool.mbufs[c]) : pool.mbufs[c][j] = id}} :
           c \in Cores}
    \cup {<<"callback", c, 0>> : c \in {d \in Cores : pool.obj[d] = id}}
    \cup {<<"channel", 0, i>> : i \in {j \in 1..Len(pool.queue) : pool.queue[j] = id}}
    \cup (IF pool.packet = id THEN {<<"store", 0, 0>>} ELSE {})

\* Where the Mbuf id is: not handed out yet, with its one owner, or released.
PlaceOf(id) ==
    IF id \notin HandedOut THEN "nic"
    ELSE IF pool.frees[id] > 0 THEN "released"
    ELSE (CHOOSE o \in OwnersOf(id) : TRUE)[1]

\* Every Mbuf handed out and not released has one owner; a released one has
\* none and was released once; and when every core has left its loop, the
\* channel is empty and the store holds no packet, every Mbuf handed out is
\* released.
C33_OneOwner ==
    /\ \A id \in 1..MaxMbufs :
          /\ id \notin HandedOut => (OwnersOf(id) = {} /\ pool.frees[id] = 0)
          /\ (id \in HandedOut /\ pool.frees[id] = 0) => Cardinality(OwnersOf(id)) = 1
          /\ pool.frees[id] > 0 => (OwnersOf(id) = {} /\ pool.frees[id] = 1)
    /\ ((\A c \in Cores : pool.pc[c] = "exited") /\ pool.queue = <<>> /\ pool.packet = NoMbuf)
           => \A id \in HandedOut : pool.frees[id] = 1

\* An Mbuf goes from the burst of the core that received it to the callback
\* of that core, from there to its release or into the channel, from the
\* channel to the store, and from the store to its release.
C33_Moves ==
    \A id \in 1..MaxMbufs :
        PlaceOf(id)' # PlaceOf(id) =>
            <<PlaceOf(id), PlaceOf(id)'>> \in
                {<<"nic", "core">>, <<"core", "callback">>, <<"callback", "released">>,
                 <<"callback", "channel">>, <<"channel", "store">>, <<"store", "released">>}

C34_HandOffThenCallback ==
    [][\A c \in Cores :
          (rx[c].pc = "send" /\ rx'[c] # rx[c]) =>
              /\ channel' = Send(channel, rx[c].flow, rx[c].mbuf)
              /\ rx'[c].pc = "process"
              /\ rx'[c].mbuf = rx[c].mbuf]_vars

(***************************************************************************)
(* The running flag, checked under SpecMonitorLive.                        *)
(***************************************************************************)
\* The flag never goes from false to true, and it goes from true to false
\* only in the body of the monitor's loop, with a duration configured and
\* that much time elapsed since the start of run.
C35_FlagSteps ==
    /\ is_running' => is_running
    /\ (is_running /\ ~is_running') =>
           /\ monitor.pc = "body"
           /\ monitor.duration \in 0..MaxDuration
           /\ monitor.elapsed >= monitor.duration

\* C35: the running flag only ever goes from true to false; the monitor
\* clears it once the configured duration has elapsed and only then; once
\* the flag is false the loop of the monitor exits; and with a configured
\* duration the flag eventually becomes false and stays false.
C35_RunningFlag ==
    /\ [][C35_FlagSteps]_vars
    /\ (~is_running) ~> (monitor.pc = "exited")
    /\ (monitor.pc # "new" /\ monitor.duration # NoDuration) ~> [](~is_running)

\* The monitor, configured with the longest duration, has cleared the flag
\* after that time and left its loop, and a core has left its loop too.
C35_Witness ==
    /\ ~is_running
    /\ monitor.pc = "exited"
    /\ monitor.duration = MaxDuration
    /\ monitor.elapsed = MaxDuration
    /\ \E c \in Cores : lcore[c].pc = "exited"

(***************************************************************************)
(* The convergence of the rule updates, checked under SpecRules.           *)
(***************************************************************************)
\* Outside update_rules every core's cell holds the rule set of the latest
\* document that compiled, which is what the daemon's new_regexset was bound
\* to last, and the empty set of FilterCtx::new before any has compiled.
C36_Converged ==
    ~DaemonUpdating =>
        \A c \in Cores : regexes[CellOf(c)] = daemon.new /\ ~cellLock[CellOf(c)]

\* One update at a time: a cell changes inside update_rules only, to the rule
\* set of the document being applied, and no other document is taken up
\* before update_rules has returned.
C36_OneUpdate ==
    /\ \A cell \in Cells :
          regexes'[cell] # regexes[cell] => (DaemonUpdating /\ regexes'[cell] = daemon.new)
    /\ DaemonUpdating => daemon'.new = daemon.new
    /\ daemon'.new # daemon.new => (daemon.pc = "read" /\ daemon'.pc = "lock" /\ daemon'.idx = 1)

\* C36: updates are applied by the one daemon thread, one document at a
\* time, so two updates never interleave on the cells; whenever the daemon
\* is not inside update_rules all cores hold the same rule set, that of the
\* last document that compiled, or the initial one if none has.
C36_Convergence == []C36_Converged /\ [][C36_OneUpdate]_vars

\* A rule set is in force on every core after another, non-empty one, and a
\* document that did not compile has been read since.
C36_Witness ==
    /\ daemon.pc = "read"
    /\ rejected.active
    /\ daemon.new # EmptyRegexSet
    /\ prevInstalled # EmptyRegexSet
    /\ prevInstalled # daemon.new
    /\ \A c \in Cores : regexes[CellOf(c)] = daemon.new

(***************************************************************************)
(* The rule set before the first rule update, checked under Spec.          *)
(***************************************************************************)
\* No rule update has written the cell of core c yet: the document being
\* applied, if any, is the first that compiled.
C37_Unwritten(c) == prevInstalled = EmptyRegexSet /\ writes[CellOf(c)] = 0

\* C37: a FilterCtx made by new starts with the empty rule set and its
\* clones inherit it: until the first rule update writes the cell of a core,
\* the cell holds the empty set and no check_match of the core has returned
\* true, whatever it passes on a hit in the shared table; until it writes
\* the first cell, no flow is admitted, the flow table is empty and no frame
\* is handed to the store.
C37_EmptyUntilInstall ==
    /\ regexes[ctxs[Main].regexes] = EmptyRegexSet
    /\ \A c \in Cores :
          C37_Unwritten(c) =>
             /\ regexes[ctxs[c].regexes] = EmptyRegexSet
             /\ rx[c].pc \notin {"add", "insert"}
    /\ (\A c \in Cores : C37_Unwritten(c)) =>
          /\ flows = <<>>
          /\ admitted = {}
          /\ channel = <<>> /\ sent = 0
          /\ \A c \in Cores : rx[c].pc # "send"

\* The first document, with the rule "a", has compiled and no cell is
\* written yet: the check_match of one core has returned false and the other
\* core is about to call it on a payload the rule "a" matches.
C37_Witness ==
    /\ daemon.pc = "lock" /\ daemon.idx = 1
    /\ installed = {<<97>>}
    /\ \A c \in Cores : C37_Unwritten(c)
    /\ rx[1].pc = "poll" /\ rx[1].why = "unmatched" /\ rx[1].rules = EmptyRegexSet
    /\ rx[2].pc = "match"
    /\ Contains(PayloadSlice(rx[2].mbuf, rx[2].ctx), <<97>>)
    /\ flows = <<>>

(***************************************************************************)
(* The daemon's connections one at a time, checked under SpecServe.        *)
(***************************************************************************)
\* The place of an accepted connection in the order of the accepts.
AcceptedAt(k) == CHOOSE i \in DOMAIN listener.order : listener.order[i] = k
Accepted == {listener.order[i] : i \in DOMAIN listener.order}

\* At most one connection is being handled; what was read was read from
\* accepted connections, and everything read from a connection accepted
\* earlier was read before anything from one accepted later.
C38_Serial ==
    /\ Cardinality(listener.handling) <= 1
    /\ \A i \in DOMAIN listener.reads : listener.reads[i][1] \in Accepted
    /\ \A i, j \in DOMAIN listener.reads :
          i < j => AcceptedAt(listener.reads[i][1]) <= AcceptedAt(listener.reads[j][1])

\* A document is read, and the cells change, only for the one connection
\* being handled, every other accepted connection having ended; a connection
\* is accepted only when every connection accepted before it has ended.
C38_Steps ==
    /\ listener'.reads # listener.reads =>
          LET k == listener'.reads[Len(listener'.reads)][1] IN
             /\ listener.handling = {k}
             /\ Accepted \ {k} \subseteq listener.ended
    /\ regexes' # regexes => listener'.reads # listener.reads
    /\ listener'.order # listener.order => Accepted \subseteq listener.ended

\* C38: the daemon serves its connections strictly one at a time: while an
\* accepted connection is being read no document of another client is read
\* or applied, and the documents of a second client are applied only after
\* the first connection has ended, in the order of the accepts.
C38_OneConnectionAtATime == []C38_Serial /\ [][C38_Steps]_vars

\* Client 2 was accepted first and its document, the rule "a", applied; its
\* connection has ended, client 1 was accepted and its document, the rule
\* "b", is in force on every core, while client 3, which has written a
\* document and closed, waits in the queue of the listener.
C38_Witness ==
    /\ listener.order = <<2, 1>>
    /\ listener.ended = {2}
    /\ listener.handling = {1}
    /\ listener.backlog = <<3>>
    /\ listener.buf[3] # <<>> /\ listener.conn[3] = "closed"
    /\ listener.reads = <<<<2, [json |-> TRUE, rules |-> {<<97>>}]>>,
                          <<1, [json |-> TRUE, rules |-> {<<98>>}]>>>>
    /\ \A c \in Cores : regexes[CellOf(c)] = {<<98>>}

(***************************************************************************)
(* Eviction by prune_flows alone, checked under SpecFlows.                 *)
(***************************************************************************)
\* A check_if_existing_flow returns false only for a key that is not in the
\* table; on a key that is there, whatever the age of its entry, it returns
\* true and leaves the entry with the time of the call.
C39_CheckSteps ==
    /\ (lastCheck' # NoCheck /\ ~lastCheck'.ret) => lastCheck'.flow \notin DOMAIN flows
    /\ \A c \in Cores :
          (fop[c].pc = "hit" /\ fop'[c] # fop[c]) =>
             /\ fop[c].flow \in DOMAIN flows /\ fop[c].flow \in DOMAIN flows'
             /\ flows'[fop[c].flow] = now
             /\ lastCheck'.flow = fop[c].flow /\ lastCheck'.ret

\* A key leaves the table only in a step of prune_flows, which drops the
\* entries of the shard it visits whose timestamp is Timeout or more ago.  An
\* entry refreshed less than Timeout ago is kept with its timestamp, although
\* Timeout or more has passed since the flow was added.
C39_PruneSteps ==
    /\ \A f \in (DOMAIN flows) \ (DOMAIN flows') :
          /\ fop[Pruner].pc = "prune" /\ fop'[Pruner] # fop[Pruner]
          /\ ShardOf(f) = fop[Pruner].cursor
          /\ now - flows[f] >= Timeout
    /\ \A f \in DOMAIN flows :
          (/\ fop[Pruner].pc = "prune" /\ fop'[Pruner] # fop[Pruner]
           /\ dirty[f] /\ now - lastAdd[f] >= Timeout
           /\ now - flows[f] < Timeout) =>
              (f \in DOMAIN flows' /\ flows'[f] = flows[f])

\* C39: eviction happens in prune_flows only: check_if_existing_flow does not
\* compare the age of the entry with the timeout, so a flow whose entry is
\* older than the timeout and not pruned yet is reported as existing and its
\* timestamp refreshed, and the prune that follows within the timeout keeps
\* it; a flow leaves the table through prune_flows only.
C39_EvictionOnlyInPrune == [][C39_CheckSteps /\ C39_PruneSteps]_vars

\* A flow added at time 0 and never pruned got a hit at time 3, more than
\* the timeout later, and the prune of its shard at that same time has just
\* kept it.
C39_Witness ==
    \E f \in DOMAIN flows :
        /\ lastAdd[f] = 0 /\ dirty[f]
        /\ flows[f] = MaxTime /\ MaxTime > Timeout
        /\ lastPrune.shard = ShardOf(f) /\ lastPrune.at = MaxTime

(***************************************************************************)
(* Two cores adding the same flow, checked under Spec.                     *)
(***************************************************************************)
\* The insert of a core whose check missed: the flow has one entry
\* afterwards, no other entry has changed, and when the other core's add_flow
\* has put the flow there since the miss, the entry carries the later of the
\* two timestamps.
C40_InsertSteps ==
    \A c \in Cores :
        (rx[c].pc = "insert" /\ rx'[c].pc = "send") =>
            /\ rx[c].flow \in DOMAIN flows'
            /\ \A k \in (DOMAIN flows) \ {rx[c].flow} :
                  k \in DOMAIN flows' /\ flows'[k] = flows[k]
            /\ (rx[c].flow \in DOMAIN flows /\ ~dirty[rx[c].flow]) =>
                  /\ flows'[rx[c].flow] >= flows[rx[c].flow]
                  /\ flows'[rx[c].flow] >= rx[c].ts

\* C40: two cores that both miss on a flow not yet admitted both call
\* add_flow; under every interleaving, also with prune_flows, the table ends
\* with one entry for the flow that carries the later timestamp, no other
\* entry is affected, and no insert finds the lock of its shard held for
\* good.
C40_RacingAdds ==
    /\ [](\A c \in Cores : rx[c].pc = "insert" => ShardFree(ShardOf(rx[c].flow)))
    /\ [][C40_InsertSteps]_vars

====
